---- MODULE Spec2Model ----
(***************************************************************************)
(* Model of the cache / synchronization subsystem of PerfumeShop:          *)
(* app/database/cache.py (PrivacyCache, CatalogCache, CartCache) and the   *)
(* access layer of app/database/requests.py that reads and reconciles      *)
(* them.                                                                   *)
(***************************************************************************)
EXTENDS Integers, Sequences, FiniteSets, TLC

\* ------------------------------------------------------------------ bounds

\* Largest quantity a caller passes to add_to_cart.
MaxQty == 2

\* Telegram user ids.
Users == {1, 2, 3, 4}

\* Users that operate a cart.
CartUsers == {1, 2}

\* Item ids (the "ID" column of the items sheet, as strings).
ItemIds == {"i1", "i2"}

\* Quantities handed to add_to_cart: negative, zero and positive.
Quantities == (0 - 1) .. MaxQty

\* Most items one update_partial call is handed as new or changed.
MaxNewItems == 1

\* Most accept_privacy_policy calls begun in one run.
MaxAccepts == 1

\* Most consent reconciliation passes counted in one run.
MaxSyncPasses == 2

\* Edits of the items sheet followed in one run.
MaxEdits == 2

\* run.main: max_retries
max_retries == 3

\* Category labels found in the "category" column of the items sheet.
CategoryNames == {"A", "B"}

\* The labels in the order sorted() gives them.
CategoryOrder == <<"A", "B">>

\* The text of the category cells: a label, a label with a trailing blank, or
\* nothing.
RowCategories == {"A", "B ", ""}

\* The text of the price cells.
RowPrices == {"10", "x"}

\* The texts that stand for the status labels of config.py.
ITEM_STATUS_RESERVED == "reserved"

ITEM_STATUS_AVAILABLE == "available"

ITEM_STATUS_UNAVAILABLE == "unavailable"

\* The text of the status cells.
RowStatuses == {"available", "unavailable"}

\* Parsed item rows, reduced to the fields the cache and the cart handler
\* read; category_name is "" when the cell is blank.
Items == [id : ItemIds, category_name : CategoryNames \cup {""},
          status : {ITEM_STATUS_AVAILABLE}]

VARIABLES
    carts,           \* CartCache._carts: user_id -> (item_id -> quantity), keys created on access
    cartOp,          \* the last CartCache call and its arguments
    accepted_users,  \* PrivacyCache._accepted_users
    p_initialized,   \* PrivacyCache._initialized
    p_last_update,   \* PrivacyCache._last_update
    ever_added,      \* users some call has put into the privacy cache (history)
    privOp,          \* the last PrivacyCache call and its arguments
    categories,         \* CatalogCache._categories: list of category names (id = name)
    items_by_category,  \* CatalogCache._items_by_category: category name -> list of items
    items_by_id,        \* CatalogCache._items_by_id: item id -> item
    c_initialized,      \* CatalogCache._initialized
    c_last_update,      \* CatalogCache._last_update
    catOp,              \* the last CatalogCache call
    sheet_users,        \* users sheet: tg_id -> "absent" (no row), "no" or "yes" (privacy_accepted)
    acc_pc,             \* accept_privacy_policy(tg_id): where each call stands
    acc_begun,          \* accept_privacy_policy calls begun
    sync_passes,        \* sync_privacy_cache calls that have returned
    overlapped,         \* users whose accept was in flight when a pass ran (history)
    running,            \* the task executing between two awaits, "none" at a scheduling point
    is_running,         \* BackgroundTasks._is_running
    loop_pc,            \* where the _sync_catalog_periodically task stands
    loop_cats,          \* sync_catalog_cache: current_categories
    loop_items,         \* sync_catalog_cache: current_items
    loop_todo,          \* CatalogCache.update: items its index loop has still to store
    cancel_pending,     \* Task.cancel() called on the catalog task, CancelledError not yet raised
    stop_pc,            \* where BackgroundTasks.stop stands
    seen,               \* what a handler reading the catalog cache last found
    committed,          \* the input of the last full replace that ran to its end (history)
    loop_failed,        \* the catalog task's last pass ended in the except clause (history)
    ploop_pc,           \* where the _sync_privacy_periodically task stands
    p_cancel_pending,   \* Task.cancel() called on the privacy task, CancelledError not yet raised
    main_pc,            \* where run.main stands
    attempt,            \* run.main: the loop variable of the startup retry loop
    startup_result,     \* how the last startup attempt ended (history)
    sheet_items,        \* the rows of the items sheet, top to bottom
    edits,              \* how many times the items sheet has been edited
    labels_at_fetch,    \* the category labels of the rows the sheet held when the catalog
                        \* task last fetched the categories (history)
    access,             \* the last read through the access layer and where it read from
    parsed,             \* the last get_all_items_from_gsheets call: rows fetched, items returned
    detail,             \* the last _parse_item_row call on the status, unit and order-step
                        \* cells of a row, and the steps the item keyboard then offers
    shelf,              \* item id -> quantity and status of the item_data get_item returns
    incr,               \* the last "cart:increase" callback cart_action_handler handled
    adminOp,            \* the last "admin:" callback and what it ran
    gate,               \* the last callback or message a consent-gated handler handled
    order,              \* the last "order" callback start_order handled
    walk,               \* cart_handler's loop over a user's cart: where it stands, the
                        \* cart when it started and the entries it has rendered
    sweeps,             \* sync_catalog_cache calls in flight: where each stands and what
                        \* it has fetched, and the order of the item fetches (history)
    bt,                 \* the BackgroundTasks object, the tasks it has created, and the
                        \* start() or stop() call in progress
    race,               \* cart_action_handler calls in flight for one user and item: where
                        \* each stands, what it has read, and which one runs between awaits
    now                 \* time.time()

cartVars == <<carts, cartOp>>

privacyVars == <<accepted_users, p_initialized, p_last_update, ever_added, privOp>>

catalogVars == <<categories, items_by_category, items_by_id, c_initialized,
                 c_last_update, catOp>>

consentVars == <<sheet_users, acc_pc, acc_begun, sync_passes, overlapped>>

mainVars == <<main_pc, attempt, startup_result>>

ploopVars == <<ploop_pc, p_cancel_pending>>

taskVars == <<running, is_running, loop_pc, loop_cats, loop_items, loop_todo,
              cancel_pending, stop_pc, seen, committed, loop_failed, ploopVars, mainVars>>

sheetVars == <<sheet_items, edits, labels_at_fetch>>

readVars == <<access, parsed>>

sessionVars == <<gate, order, race, walk, sweeps, bt>>

handlerVars == <<detail, shelf, incr, adminOp, sessionVars>>

nonCartVars == <<privacyVars, catalogVars, consentVars, taskVars, sheetVars, readVars, handlerVars, now>>

nonPrivacyVars == <<cartVars, catalogVars, consentVars, taskVars, sheetVars, readVars, handlerVars, now>>

nonCatalogVars == <<cartVars, privacyVars, consentVars, taskVars, sheetVars, readVars, handlerVars, now>>

nonConsentVars == <<cartVars, catalogVars, taskVars, sheetVars, readVars, handlerVars, now>>

nonTaskVars == <<cartVars, privacyVars, consentVars, sheetVars, readVars, handlerVars, now>>

\* ------------------------------------------------------------- CartCache

NoCartOp == [op |-> "none", user |-> 0, item |-> "", qty |-> 0]

\* defaultdict(dict).__getitem__: a missing key is created with an empty dict.
CartsGetItem(c, u) ==
    IF u \in DOMAIN c THEN c ELSE [v \in (DOMAIN c) \cup {u} |-> IF v = u THEN << >> ELSE c[v]]

\* A dict without one key.
DictDel(d, k) == [j \in (DOMAIN d) \ {k} |-> d[j]]

\* A dict with one key set.
DictSet(d, k, x) == [j \in (DOMAIN d) \cup {k} |-> IF j = k THEN x ELSE d[j]]

\* CartCache.remove_from_cart
RemoveFromCart(c, u, i) ==
    LET c1 == CartsGetItem(c, u) IN
    IF i \in DOMAIN c1[u]
    THEN [c1 EXCEPT ![u] = DictDel(c1[u], i)]
    ELSE c1

\* A faulty add_to_cart that stores whatever quantity it is given.
AddToCartUnguarded(c, u, i, q) ==
    LET c1 == CartsGetItem(c, u) IN [c1 EXCEPT ![u] = DictSet(c1[u], i, q)]

\* A faulty add_to_cart that removes only for negative quantities.
AddToCartStrictGuard(c, u, i, q) ==
    IF q < 0
    THEN RemoveFromCart(c, u, i)
    ELSE LET c1 == CartsGetItem(c, u) IN [c1 EXCEPT ![u] = DictSet(c1[u], i, q)]

\* A faulty add_to_cart that adds the quantity to the one already held.
AddToCartIncremental(c, u, i, q) ==
    IF q <= 0
    THEN RemoveFromCart(c, u, i)
    ELSE LET c1 == CartsGetItem(c, u) IN
         [c1 EXCEPT ![u] = DictSet(c1[u], i,
                                   (IF i \in DOMAIN c1[u] THEN c1[u][i] ELSE 0) + q)]

\* CartCache.add_to_cart
AddToCart(c, u, i, q) ==
    IF q <= 0
    THEN RemoveFromCart(c, u, i)
    ELSE LET c1 == CartsGetItem(c, u) IN [c1 EXCEPT ![u] = DictSet(c1[u], i, q)]

\* A faulty clear_cart that empties the cart of every user.
ClearCartOfAll(c, u) ==
    [v \in DOMAIN CartsGetItem(c, u) |-> << >>]

\* CartCache.clear_cart
ClearCart(c, u) ==
    LET c1 == CartsGetItem(c, u) IN [c1 EXCEPT ![u] = << >>]

\* CartCache.get_cart: the value returned (the access itself creates the key).
GetCart(c, u) == CartsGetItem(c, u)[u]

\* A faulty get_item_quantity that answers a miss with the sentinel -1.
GetItemQuantityMissing(c, u, i) ==
    LET d == CartsGetItem(c, u)[u] IN IF i \in DOMAIN d THEN d[i] ELSE 0 - 1

\* CartCache.get_item_quantity: the value returned.
GetItemQuantity(c, u, i) ==
    LET d == CartsGetItem(c, u)[u] IN IF i \in DOMAIN d THEN d[i] ELSE 0

add_to_cart ==
    \E u \in CartUsers, i \in ItemIds, q \in Quantities :
        /\ carts' = AddToCart(carts, u, i, q)
        /\ cartOp' = [op |-> "add_to_cart", user |-> u, item |-> i, qty |-> q]
        /\ UNCHANGED nonCartVars

remove_from_cart ==
    \E u \in CartUsers, i \in ItemIds :
        /\ carts' = RemoveFromCart(carts, u, i)
        /\ cartOp' = [op |-> "remove_from_cart", user |-> u, item |-> i, qty |-> 0]
        /\ UNCHANGED nonCartVars

clear_cart ==
    \E u \in CartUsers :
        /\ carts' = ClearCart(carts, u)
        /\ cartOp' = [op |-> "clear_cart", user |-> u, item |-> "", qty |-> 0]
        /\ UNCHANGED nonCartVars

get_cart ==
    \E u \in CartUsers :
        /\ carts' = CartsGetItem(carts, u)
        /\ cartOp' = [op |-> "get_cart", user |-> u, item |-> "", qty |-> 0]
        /\ UNCHANGED nonCartVars

get_item_quantity ==
    \E u \in CartUsers, i \in ItemIds :
        /\ carts' = CartsGetItem(carts, u)
        /\ cartOp' = [op |-> "get_item_quantity", user |-> u, item |-> i, qty |-> 0]
        /\ UNCHANGED nonCartVars

CartInit ==
    /\ carts = << >>
    /\ cartOp = NoCartOp

CartNext ==
    \/ add_to_cart
    \/ remove_from_cart
    \/ clear_cart
    \/ get_cart
    \/ get_item_quantity

\* ----------------------------------------------------------- PrivacyCache

NoPrivOp == [op |-> "none", user |-> 0, users |-> {}, removed |-> {}]

\* A faulty is_accepted that lets everybody through until the cache is loaded.
IsAcceptedFailOpen(user_id) == (~p_initialized) \/ user_id \in accepted_users

\* PrivacyCache.is_accepted
IsAccepted(user_id) == user_id \in accepted_users

\* A faulty update_partial that forgets to remove.
PrivacyUpdatePartialAddOnly(acc, new_users, removed_users) == acc \cup new_users

\* PrivacyCache.update_partial: the accepted set it leaves.
PrivacyUpdatePartial(acc, new_users, removed_users) ==
    (acc \cup new_users) \ removed_users

\* PrivacyCache.initialize
PrivacyInitialize(S) ==
    /\ accepted_users' = S
    /\ p_initialized' = TRUE
    /\ p_last_update' = now

privacy_initialize ==
    \E S \in SUBSET Users :
        /\ PrivacyInitialize(S)
        /\ ever_added' = ever_added \cup S
        /\ privOp' = [op |-> "initialize", user |-> 0, users |-> S, removed |-> {}]
        /\ UNCHANGED nonPrivacyVars

\* PrivacyCache.add_user
privacy_add_user ==
    \E u \in Users :
        /\ accepted_users' = accepted_users \cup {u}
        /\ ever_added' = ever_added \cup {u}
        /\ privOp' = [op |-> "add_user", user |-> u, users |-> {}, removed |-> {}]
        /\ UNCHANGED <<p_initialized, p_last_update>>
        /\ UNCHANGED nonPrivacyVars

\* PrivacyCache.remove_user
privacy_remove_user ==
    \E u \in Users :
        /\ accepted_users' = accepted_users \ {u}
        /\ privOp' = [op |-> "remove_user", user |-> u, users |-> {}, removed |-> {}]
        /\ UNCHANGED <<p_initialized, p_last_update, ever_added>>
        /\ UNCHANGED nonPrivacyVars

privacy_update_partial ==
    \E new_users \in SUBSET Users, removed_users \in SUBSET Users :
        /\ accepted_users' = PrivacyUpdatePartial(accepted_users, new_users, removed_users)
        /\ p_last_update' = now
        /\ ever_added' = ever_added \cup new_users
        /\ privOp' = [op |-> "update_partial", user |-> 0,
                      users |-> new_users, removed |-> removed_users]
        /\ UNCHANGED p_initialized
        /\ UNCHANGED nonPrivacyVars

PrivacyInit ==
    /\ accepted_users = {}
    /\ p_initialized = FALSE
    /\ p_last_update = 0
    /\ ever_added = {}
    /\ privOp = NoPrivOp

PrivacyNext ==
    \/ privacy_initialize
    \/ privacy_add_user
    \/ privacy_remove_user
    \/ privacy_update_partial

\* ----------------------------------------------------------- CatalogCache

NoCatOp == [op |-> "none", repeated |-> FALSE]

\* All sequences over S of length at most n.
SeqsUpTo(S, n) == UNION {[1..k -> S] : k \in 0..n}

\* [x for x in seq if keep(x)]
RECURSIVE SelectItems(_, _)
SelectItems(seq, drop_id) ==
    IF seq = << >> THEN << >>
    ELSE IF Head(seq).id = drop_id
         THEN SelectItems(Tail(seq), drop_id)
         ELSE <<Head(seq)>> \o SelectItems(Tail(seq), drop_id)

\* The grouping loop of sync_catalog_cache: items with a category, in fetch
\* order, under their category name.
RECURSIVE GroupByCategory(_, _)
GroupByCategory(acc, items) ==
    IF items = << >> THEN acc
    ELSE LET item == Head(items)
             category_name == item.category_name
             acc1 == IF category_name = "" THEN acc
                     ELSE IF category_name \in DOMAIN acc
                          THEN [acc EXCEPT ![category_name] = Append(@, item)]
                          ELSE DictSet(acc, category_name, <<item>>)
         IN GroupByCategory(acc1, Tail(items))

\* for item in items: by_id[item['id']] = item
RECURSIVE IndexItems(_, _)
IndexItems(by_id, items) ==
    IF items = << >> THEN by_id
    ELSE IndexItems(DictSet(by_id, Head(items).id, Head(items)), Tail(items))

\* for items in items_by_category.values(): the buckets one after the other.
RECURSIVE FlattenBuckets(_, _)
FlattenBuckets(ibc, k) ==
    IF k > Len(CategoryOrder) THEN << >>
    ELSE (IF CategoryOrder[k] \in DOMAIN ibc THEN ibc[CategoryOrder[k]] ELSE << >>)
         \o FlattenBuckets(ibc, k + 1)

\* The _items_by_id index initialize and update build.
ItemsById(ibc) == IndexItems(<< >>, FlattenBuckets(ibc, 1))

\* A faulty full replace that appends the new buckets to the ones held.
CatalogReplaceMerging(cats, ibc) ==
    /\ categories' = cats
    /\ items_by_category' =
           [c \in (DOMAIN items_by_category) \cup (DOMAIN ibc) |->
               (IF c \in DOMAIN items_by_category THEN items_by_category[c] ELSE << >>)
               \o (IF c \in DOMAIN ibc THEN ibc[c] ELSE << >>)]
    /\ items_by_id' = ItemsById(ibc)
    /\ c_initialized' = TRUE
    /\ c_last_update' = now

\* CatalogCache.initialize and CatalogCache.update: the same full replace.
CatalogReplace(cats, ibc) ==
    /\ categories' = cats
    /\ items_by_category' = ibc
    /\ items_by_id' = ItemsById(ibc)
    /\ c_initialized' = TRUE
    /\ c_last_update' = now

\* update_partial, first loop: remove the ids of removed_item_ids. Each id is
\* removed from the bucket of the category the id index records for it.
RECURSIVE RemoveItems(_, _)
RemoveItems(st, ids) ==
    IF ids = {} THEN st
    ELSE LET item_id == CHOOSE x \in ids : TRUE
             st1 == IF item_id \in DOMAIN st.by_id
                    THEN LET category_name == st.by_id[item_id].category_name IN
                         [by_cat |-> IF category_name \in DOMAIN st.by_cat
                                     THEN [st.by_cat EXCEPT ![category_name] =
                                              SelectItems(@, item_id)]
                                     ELSE st.by_cat,
                          by_id |-> DictDel(st.by_id, item_id)]
                    ELSE st
         IN RemoveItems(st1, ids \ {item_id})

\* update_partial, second loop: add or replace the items of new_items.
RECURSIVE UpsertItems(_, _)
UpsertItems(st, new_items) ==
    IF new_items = << >> THEN st
    ELSE LET item == Head(new_items)
             item_id == item.id
             category_name == item.category_name
             by_cat1 == IF category_name # ""
                        THEN LET b == IF category_name \in DOMAIN st.by_cat
                                      THEN st.by_cat[category_name] ELSE << >>
                             IN DictSet(st.by_cat, category_name,
                                        Append(SelectItems(b, item_id), item))
                        ELSE st.by_cat
         IN UpsertItems([by_cat |-> by_cat1, by_id |-> DictSet(st.by_id, item_id, item)],
                        Tail(new_items))

\* CatalogCache.update_partial: the two indices it leaves.
CatalogUpdatePartial(by_cat, by_id, new_items, removed_item_ids) ==
    UpsertItems(RemoveItems([by_cat |-> by_cat, by_id |-> by_id], removed_item_ids),
                new_items)

\* get_all_categories_from_gsheets: distinct labels sorted by name.
CategoryLists == {<< >>, <<"A">>, <<"A", "B">>}

\* get_all_items_from_gsheets: the parsed rows, one row per item id.
FetchedItemLists ==
    {s \in SeqsUpTo(Items, Cardinality(ItemIds)) :
        \A j, k \in 1..Len(s) : j # k => s[j].id # s[k].id}

\* CatalogCache.get_categories
CatalogGetCategories == categories

\* CatalogCache.get_items_by_category
CatalogGetItemsByCategory(category_name) ==
    IF category_name \in DOMAIN items_by_category
    THEN items_by_category[category_name] ELSE << >>

\* CatalogCache.get_item; "None" stands for None.
CatalogGetItem(item_id) ==
    IF item_id \in DOMAIN items_by_id THEN items_by_id[item_id] ELSE "None"

\* What a caller can read from the catalog cache.
CatalogReads ==
    <<CatalogGetCategories,
      [c \in CategoryNames \cup {""} |-> CatalogGetItemsByCategory(c)],
      [i \in ItemIds |-> CatalogGetItem(i)]>>

\* The call repeats the input of the full replace made just before it.
RepeatsLastReplace(cats, ibc) ==
    /\ catOp.op \in {"initialize", "update"}
    /\ categories = cats
    /\ items_by_category = ibc

catalog_initialize ==
    \E cats \in CategoryLists, items \in FetchedItemLists :
        LET ibc == GroupByCategory(<< >>, items) IN
        /\ CatalogReplace(cats, ibc)
        /\ catOp' = [op |-> "initialize", repeated |-> RepeatsLastReplace(cats, ibc)]
        /\ UNCHANGED nonCatalogVars

catalog_update ==
    \E cats \in CategoryLists, items \in FetchedItemLists :
        LET ibc == GroupByCategory(<< >>, items) IN
        /\ CatalogReplace(cats, ibc)
        /\ catOp' = [op |-> "update", repeated |-> RepeatsLastReplace(cats, ibc)]
        /\ UNCHANGED nonCatalogVars

catalog_update_partial ==
    \E new_items \in SeqsUpTo(Items, MaxNewItems), removed_item_ids \in SUBSET ItemIds,
       updated_categories \in CategoryLists :
        LET st == CatalogUpdatePartial(items_by_category, items_by_id,
                                       new_items, removed_item_ids) IN
        /\ categories' = IF updated_categories # << >> THEN updated_categories
                         ELSE categories
        /\ items_by_category' = st.by_cat
        /\ items_by_id' = st.by_id
        /\ c_last_update' = now
        /\ catOp' = [op |-> "update_partial", repeated |-> FALSE,
                     new_items |-> new_items, removed_item_ids |-> removed_item_ids]
        /\ UNCHANGED c_initialized
        /\ UNCHANGED nonCatalogVars

\* CatalogCache.get_categories called: the cache is left as it is.
catalog_get_categories ==
    /\ catOp' = [op |-> "get_categories", repeated |-> FALSE]
    /\ UNCHANGED <<categories, items_by_category, items_by_id, c_initialized, c_last_update>>
    /\ UNCHANGED nonCatalogVars

\* CatalogCache.get_items_by_category called: the cache is left as it is.
catalog_get_items_by_category ==
    /\ catOp' = [op |-> "get_items_by_category", repeated |-> FALSE]
    /\ UNCHANGED <<categories, items_by_category, items_by_id, c_initialized, c_last_update>>
    /\ UNCHANGED nonCatalogVars

\* CatalogCache.get_item called: the cache is left as it is.
catalog_get_item ==
    /\ catOp' = [op |-> "get_item", repeated |-> FALSE]
    /\ UNCHANGED <<categories, items_by_category, items_by_id, c_initialized, c_last_update>>
    /\ UNCHANGED nonCatalogVars

CatalogInit ==
    /\ categories = << >>
    /\ items_by_category = << >>
    /\ items_by_id = << >>
    /\ c_initialized = FALSE
    /\ c_last_update = 0
    /\ catOp = NoCatOp

CatalogNext ==
    \/ catalog_initialize
    \/ catalog_update
    \/ catalog_update_partial

\* ------------------------------------------- consent: access layer and sync

\* tg_ids whose row of the users sheet has privacy_accepted set.
SheetAccepted(sheet) == {u \in Users : sheet[u] = "yes"}

\* UPDATE users SET privacy_accepted = TRUE WHERE tg_id = ?: a missing row
\* is left missing.
SheetSetAccepted(sheet, tg_id) ==
    IF sheet[tg_id] = "absent" THEN sheet ELSE [sheet EXCEPT ![tg_id] = "yes"]

\* accept_privacy_policy, up to the await of the UPDATE query.
accept_begin ==
    \E u \in Users :
        /\ acc_pc[u] = "idle"
        /\ acc_begun < MaxAccepts
        /\ acc_begun' = acc_begun + 1
        /\ acc_pc' = [acc_pc EXCEPT ![u] = "await_update"]
        /\ UNCHANGED <<sheet_users, sync_passes, overlapped, privacyVars>>
        /\ UNCHANGED nonConsentVars

\* The UPDATE query runs in the executor and commits.
accept_store_update ==
    \E u \in Users :
        /\ acc_pc[u] = "await_update"
        /\ sheet_users' = SheetSetAccepted(sheet_users, u)
        /\ acc_pc' = [acc_pc EXCEPT ![u] = "resume"]
        /\ UNCHANGED <<acc_begun, sync_passes, overlapped, privacyVars>>
        /\ UNCHANGED nonConsentVars

\* A faulty write-through that has put the user into the cache before the
\* UPDATE query is known to have succeeded.
AcceptStoreFailCached(u) ==
    /\ acc_pc[u] = "await_update"
    /\ acc_pc' = [acc_pc EXCEPT ![u] = "failed"]
    /\ accepted_users' = accepted_users \cup {u}
    /\ UNCHANGED <<p_initialized, p_last_update, ever_added, privOp>>

\* The exception of run_shillelagh_query leaves accept_privacy_policy at its
\* await: the add_user line below it is not reached.
AcceptStoreFail(u) ==
    /\ acc_pc[u] = "await_update"
    /\ acc_pc' = [acc_pc EXCEPT ![u] = "failed"]
    /\ UNCHANGED privacyVars

\* The UPDATE query raises: the exception leaves accept_privacy_policy.
accept_store_fail ==
    \E u \in Users :
        /\ AcceptStoreFail(u)
        /\ UNCHANGED <<sheet_users, acc_begun, sync_passes, overlapped>>
        /\ UNCHANGED nonConsentVars

\* A faulty write-through that returns without touching the cache.
AcceptAddUserSkipped(u) ==
    /\ acc_pc[u] = "resume"
    /\ acc_pc' = [acc_pc EXCEPT ![u] = "done"]
    /\ UNCHANGED <<accepted_users, ever_added, privOp>>
    /\ UNCHANGED <<p_initialized, p_last_update>>

\* accept_privacy_policy resumed: privacy_cache.add_user(tg_id), return.
AcceptAddUser(u) ==
    /\ acc_pc[u] = "resume"
    /\ accepted_users' = accepted_users \cup {u}
    /\ ever_added' = ever_added \cup {u}
    /\ privOp' = [op |-> "add_user", user |-> u, users |-> {}, removed |-> {}]
    /\ acc_pc' = [acc_pc EXCEPT ![u] = "done"]
    /\ UNCHANGED <<p_initialized, p_last_update>>

accept_add_user ==
    \E u \in Users :
        /\ AcceptAddUser(u)
        /\ UNCHANGED <<sheet_users, acc_begun, sync_passes, overlapped>>
        /\ UNCHANGED nonConsentVars

\* sync_privacy_cache. Its first statement calls get_all_users, a name bound
\* nowhere in the module: the NameError lands in the except clause, which
\* logs it, and the pass returns with the cache as it was. The pass awaits
\* nothing, so it is one step. privOp.users keeps the accepted rows the sheet
\* held during the pass.
sync_privacy_cache ==
    /\ sync_passes < MaxSyncPasses
    /\ sync_passes' = sync_passes + 1
    /\ privOp' = [op |-> "sync_privacy_cache", user |-> 0,
                  users |-> SheetAccepted(sheet_users), removed |-> {}]
    /\ overlapped' = overlapped \cup {u \in Users : acc_pc[u] \in {"await_update", "resume"}}
    /\ UNCHANGED <<accepted_users, p_initialized, p_last_update, ever_added>>
    /\ UNCHANGED <<sheet_users, acc_pc, acc_begun>>
    /\ UNCHANGED nonConsentVars

ConsentInit ==
    /\ acc_pc = [u \in Users |-> "idle"]
    /\ acc_begun = 0
    /\ sync_passes = 0
    /\ overlapped = {}

ConsentNext ==
    \/ accept_begin
    \/ accept_store_update
    \/ accept_store_fail
    \/ accept_add_user
    \/ sync_privacy_cache

\* ------------------------------------------------------------ items sheet

\* A faulty strip that leaves the cell as it is.
StripNothing(cell) == cell

\* str(cell).strip()
Strip(cell) ==
    CASE cell = "B " -> "B"
      [] cell = " reserved " -> "reserved"
      [] cell = " ML " -> "ML"
      [] OTHER -> cell

\* A cell of the sheet that holds nothing (None).
NoneCell == "None"

\* A faulty status rule that keeps whatever label the cell holds.
ParseStatusAsWritten(cell) ==
    IF cell = NoneCell THEN ITEM_STATUS_AVAILABLE ELSE Strip(cell)

\* _parse_item_row, status: the stripped label when it is one of the three,
\* UNAVAILABLE otherwise; AVAILABLE when the cell is None.
ParseStatus(cell) ==
    LET status_val == IF cell = NoneCell THEN ITEM_STATUS_AVAILABLE ELSE Strip(cell) IN
    IF status_val \in {ITEM_STATUS_AVAILABLE, ITEM_STATUS_RESERVED, ITEM_STATUS_UNAVAILABLE}
    THEN status_val
    ELSE ITEM_STATUS_UNAVAILABLE

\* The cells of the rows of the items sheet: item id, category, price and
\* status ("x" is a price float() cannot read).
Rows == [id : ItemIds, category : RowCategories, price : RowPrices, status : RowStatuses]

\* A faulty parser whose error on a row ends the batch: the rows after a bad
\* row are lost.
RECURSIVE ParseRowsAborting(_)
ParseRowsAborting(rows) ==
    IF rows = << >> \/ Head(rows).price = "x" THEN << >>
    ELSE <<[id |-> Head(rows).id, category_name |-> Strip(Head(rows).category),
            status |-> ParseStatus(Head(rows).status)]>>
         \o ParseRowsAborting(Tail(rows))

\* _parse_item_row: the item of a row, << >> standing for None when a cell
\* cannot be converted (the exception is caught and logged).
ParseItemRow(row) ==
    IF row.price = "x" THEN << >>
    ELSE <<[id |-> row.id, category_name |-> Strip(row.category),
            status |-> ParseStatus(row.status)]>>

\* The loop over the fetched rows: the items of the rows that parse, in order.
RECURSIVE ParseRows(_)
ParseRows(rows) ==
    IF rows = << >> THEN << >>
    ELSE ParseItemRow(Head(rows)) \o ParseRows(Tail(rows))

\* SELECT ... WHERE status != 'unavailable'
QueryItemRows(sheet) == SelectSeq(sheet, LAMBDA row : row.status # "unavailable")

\* get_all_items_from_gsheets
GetAllItemsFromGsheets(sheet) == ParseRows(QueryItemRows(sheet))

\* SELECT DISTINCT category ... WHERE category IS NOT NULL AND TRIM(category) != ''
QueryCategories(sheet) ==
    {c \in {sheet[k].category : k \in 1..Len(sheet)} : Strip(c) # ""}

\* One entry per fetched cell whose stripped text is the name.
RECURSIVE NamesOf(_, _)
NamesOf(cells, name) ==
    IF \A c \in cells : Strip(c) # name THEN << >>
    ELSE LET c == CHOOSE x \in cells : Strip(x) = name
         IN <<name>> \o NamesOf(cells \ {c}, name)

\* sorted(categories, key=name)
RECURSIVE SortedNames(_, _)
SortedNames(cells, k) ==
    IF k > Len(CategoryOrder) THEN << >>
    ELSE NamesOf(cells, CategoryOrder[k]) \o SortedNames(cells, k + 1)

\* A faulty category fetch that reads a category list kept apart from the
\* item rows.
GetAllCategoriesFromList(sheet) == CategoryOrder

\* get_all_categories_from_gsheets
GetAllCategoriesFromGsheets(sheet) == SortedNames(QueryCategories(sheet), 1)

\* The category labels of the rows of a sheet.
RowLabels(sheet) == {Strip(sheet[k].category) : k \in 1..Len(sheet)}

\* The items sheet with one row per item id at most.
ItemSheets ==
    {sh \in SeqsUpTo(Rows, Cardinality(ItemIds)) :
        \A j, k \in 1..Len(sh) : j # k => sh[j].id # sh[k].id}

\* The sheets whose rows all parse and are all on sale.
PlainSheets ==
    {sh \in ItemSheets :
        \A k \in 1..Len(sh) : sh[k].price # "x" /\ sh[k].status = "available"}

\* Somebody edits the items sheet in the browser: a row is added, removed or
\* changed.
sheet_edit ==
    /\ edits < MaxEdits
    /\ \E sh \in ItemSheets :
          /\ sh # sheet_items
          /\ Len(sh) - Len(sheet_items) \in {0 - 1, 0, 1}
          /\ Cardinality({k \in 1..Len(sh) :
                            k > Len(sheet_items) \/ sh[k] # sheet_items[k]}) <= 1
             \/ \E d \in 1..Len(sheet_items) :
                   sh = SubSeq(sheet_items, 1, d - 1)
                        \o SubSeq(sheet_items, d + 1, Len(sheet_items))
          /\ sheet_items' = sh
    /\ edits' = edits + 1
    /\ UNCHANGED labels_at_fetch
    /\ UNCHANGED <<cartVars, privacyVars, catalogVars, consentVars, taskVars, readVars, handlerVars, now>>

SheetInit ==
    /\ sheet_items = << >>
    /\ edits = 0
    /\ labels_at_fetch = {}

\* The status cells a row of the sheet can hold as text: the three labels,
\* one of them padded with blanks, an unknown label and a label in the
\* wrong case.
StatusTexts == {"available", " reserved ", "unavailable", "sold", "Available"}

\* The sheets whose rows parse and carry any of the status texts.
StatusSheets ==
    {sh \in SeqsUpTo([id : ItemIds, category : {"A", "B "}, price : {"10"},
                      status : StatusTexts], Cardinality(ItemIds)) :
        \A j, k \in 1..Len(sh) : j # k => sh[j].id # sh[k].id}

\* Somebody types another status into the status cell of a row.
sheet_relabel ==
    /\ edits < MaxEdits
    /\ \E k \in 1..Len(sheet_items), text \in StatusTexts :
          /\ text # sheet_items[k].status
          /\ sheet_items' = [sheet_items EXCEPT ![k].status = text]
    /\ edits' = edits + 1
    /\ UNCHANGED labels_at_fetch
    /\ UNCHANGED <<cartVars, privacyVars, catalogVars, consentVars, taskVars, readVars, handlerVars, now>>

\* No read through the access layer yet, no fetch of the item rows yet.
NoAccess ==
    [op |-> "none", user |-> 0, key |-> "", source |-> "none", returned |-> FALSE,
     answer |-> [accepted |-> FALSE, names |-> << >>, items |-> << >>]]

NotFetched == [fetched |-> FALSE, rows |-> << >>, items |-> << >>]

ReadInit ==
    /\ access = NoAccess
    /\ parsed = NotFetched

\* The longest batch of item rows a fetch is followed on.
MaxRows == 3

\* The sheets a fetch of the item rows is followed on: any rows, no more
\* than MaxRows of them.
RowBatches == SeqsUpTo(Rows, MaxRows)

\* get_all_items_from_gsheets: the rows the query returns, each handed to
\* _parse_item_row, the items that come back collected in order. A failed
\* query leaves the call as an exception.
get_all_items_from_gsheets ==
    /\ \E query_ok \in BOOLEAN :
          parsed' = IF query_ok
                    THEN [fetched |-> TRUE, rows |-> QueryItemRows(sheet_items),
                          items |-> GetAllItemsFromGsheets(sheet_items)]
                    ELSE NotFetched
    /\ UNCHANGED <<cartVars, privacyVars, catalogVars, consentVars, taskVars,
                   sheetVars, access, handlerVars, now>>

\* ------------------------------------------ reads through the access layer

\* PrivacyCache._update_interval and CatalogCache._update_interval, seconds.
update_interval == 300

\* time.time() is followed up to this many seconds.
MaxClock == 602

\* PrivacyCache.needs_update
PrivacyNeedsUpdate == (~p_initialized) \/ (now - p_last_update) > update_interval

\* CatalogCache.needs_update
CatalogNeedsUpdate == (~c_initialized) \/ (now - c_last_update) > update_interval

\* The test at the head of get_user_privacy_status.
PrivacyServesFromCache == p_initialized /\ ~PrivacyNeedsUpdate

\* SELECT * ... WHERE category = ?: the cell is compared as it is written.
QueryRowsOfCategory(sheet, category_name) ==
    SelectSeq(sheet, LAMBDA row : row.category = category_name)

\* Time passes: one update interval, or a second more than that.
clock_advance ==
    /\ \E d \in {update_interval, update_interval + 1} :
          /\ now + d <= MaxClock
          /\ now' = now + d
    /\ UNCHANGED <<cartVars, privacyVars, catalogVars, consentVars, taskVars,
                   sheetVars, readVars, handlerVars>>

\* sync_catalog_cache called from a read: both fetches and the full replace
\* when ok, the swallowed exception of a failed fetch otherwise.
SyncCatalogCacheFromRead(ok) ==
    IF ok
    THEN LET current_categories == GetAllCategoriesFromGsheets(sheet_items)
             current_items == GetAllItemsFromGsheets(sheet_items) IN
         /\ CatalogReplace(current_categories, GroupByCategory(<< >>, current_items))
         /\ catOp' = [op |-> IF c_initialized THEN "update" ELSE "initialize",
                      repeated |-> FALSE]
         /\ committed' = [cats |-> current_categories, items |-> current_items,
                          init |-> TRUE]
         /\ labels_at_fetch' = RowLabels(sheet_items)
    ELSE UNCHANGED <<catalogVars, committed, labels_at_fetch>>

\* sync_catalog_cache called on its own, as one step: the pass when both
\* fetches succeed, nothing when one of them raises.
sync_catalog_cache ==
    /\ \E ok \in BOOLEAN : SyncCatalogCacheFromRead(ok)
    /\ UNCHANGED <<running, is_running, loop_pc, loop_cats, loop_items, loop_todo,
                   cancel_pending, stop_pc, seen, loop_failed, ploopVars, mainVars>>
    /\ UNCHANGED <<cartVars, privacyVars, consentVars, sheet_items, edits, readVars,
                   handlerVars, now>>

\* SELECT * ... WHERE id = ?, fetch_one: the first row with that id, parsed;
\* << >> stands for None.
GetItemFromStore(sheet, item_id) ==
    LET rows == SelectSeq(sheet, LAMBDA row : row.id = item_id) IN
    IF rows = << >> THEN << >> ELSE ParseItemRow(rows[1])

\* catalog_cache.get_item as get_item returns it: << >> stands for None.
GetItemFromCache(item_id) ==
    IF item_id \in DOMAIN items_by_id THEN <<items_by_id[item_id]>> ELSE << >>

\* A faulty test that sends the read to the store when the fresh cache holds
\* no item.
CatalogServesFromCacheUnlessEmpty ==
    c_initialized /\ ~CatalogNeedsUpdate /\ items_by_id # << >>

\* The test at the head of get_categories, get_items_by_category and get_item.
CatalogServesFromCache == c_initialized /\ ~CatalogNeedsUpdate

\* The answers of the four reads: a truth value for the consent read, a list
\* of names for get_categories, a list of items for the other two (one item
\* at most for get_item, none standing for None).
AnswerAccepted(accepted) == [accepted |-> accepted, names |-> << >>, items |-> << >>]

AnswerNames(names) == [accepted |-> FALSE, names |-> names, items |-> << >>]

AnswerItems(items) == [accepted |-> FALSE, names |-> << >>, items |-> items]

\* What a read leaves in `access`: the user or key asked for, where the
\* answer came from, whether the call returned (a failed query raises) and
\* the answer.
ReadFromCache(op, user, key, answer) ==
    [op |-> op, user |-> user, key |-> key, source |-> "cache", returned |-> TRUE,
     answer |-> answer]

ReadFromStore(op, user, key, query_ok, answer) ==
    [op |-> op, user |-> user, key |-> key, source |-> "store", returned |-> query_ok,
     answer |-> IF query_ok THEN answer ELSE AnswerItems(<< >>)]

\* get_user_privacy_status: the answer of the cache when it is initialized
\* and fresh, otherwise the answer of the users sheet; the cache is not
\* touched. A failed query leaves the call as an exception.
access_get_user_privacy_status ==
    /\ \E tg_id \in Users, query_ok \in BOOLEAN :
          access' = IF PrivacyServesFromCache
                    THEN ReadFromCache("get_user_privacy_status", tg_id, "",
                                       AnswerAccepted(IsAccepted(tg_id)))
                    ELSE ReadFromStore("get_user_privacy_status", tg_id, "", query_ok,
                                       AnswerAccepted(sheet_users[tg_id] = "yes"))
    /\ UNCHANGED <<cartVars, privacyVars, catalogVars, consentVars, taskVars,
                   sheetVars, parsed, handlerVars, now>>

\* get_categories: the cached list when the cache is initialized and fresh;
\* otherwise the list of the sheet, followed by sync_catalog_cache when that
\* list is not empty.
access_get_categories ==
    /\ IF CatalogServesFromCache
       THEN /\ access' = ReadFromCache("get_categories", 0, "",
                                     AnswerNames(CatalogGetCategories))
            /\ UNCHANGED <<catalogVars, committed, labels_at_fetch>>
       ELSE \E query_ok, sync_ok \in BOOLEAN :
              /\ access' = ReadFromStore("get_categories", 0, "", query_ok,
                               AnswerNames(GetAllCategoriesFromGsheets(sheet_items)))
              /\ IF query_ok /\ GetAllCategoriesFromGsheets(sheet_items) # << >>
                 THEN SyncCatalogCacheFromRead(sync_ok)
                 ELSE UNCHANGED <<catalogVars, committed, labels_at_fetch>>
    /\ UNCHANGED <<running, is_running, loop_pc, loop_cats, loop_items, loop_todo,
                   cancel_pending, stop_pc, seen, loop_failed, ploopVars, mainVars>>
    /\ UNCHANGED <<cartVars, privacyVars, consentVars, sheet_items, edits, parsed,
                   handlerVars, now>>

\* get_items_by_category: the cached bucket when the cache is initialized and
\* fresh; otherwise the parsed rows of that category, followed by
\* sync_catalog_cache when there is at least one.
access_get_items_by_category ==
    /\ \E category_name \in CategoryNames :
          IF CatalogServesFromCache
          THEN /\ access' = ReadFromCache("get_items_by_category", 0, category_name,
                                 AnswerItems(CatalogGetItemsByCategory(category_name)))
               /\ UNCHANGED <<catalogVars, committed, labels_at_fetch>>
          ELSE \E query_ok, sync_ok \in BOOLEAN :
                 LET items == ParseRows(QueryRowsOfCategory(sheet_items, category_name)) IN
                 /\ access' = ReadFromStore("get_items_by_category", 0, category_name,
                                            query_ok, AnswerItems(items))
                 /\ IF query_ok /\ items # << >>
                    THEN SyncCatalogCacheFromRead(sync_ok)
                    ELSE UNCHANGED <<catalogVars, committed, labels_at_fetch>>
    /\ UNCHANGED <<running, is_running, loop_pc, loop_cats, loop_items, loop_todo,
                   cancel_pending, stop_pc, seen, loop_failed, ploopVars, mainVars>>
    /\ UNCHANGED <<cartVars, privacyVars, consentVars, sheet_items, edits, parsed,
                   handlerVars, now>>

\* get_item: the cached item when the cache is initialized and fresh, None
\* when it holds no such item; otherwise the parsed row of the sheet. The
\* cache is not touched.
access_get_item ==
    /\ \E item_id \in ItemIds, query_ok \in BOOLEAN :
          access' = IF CatalogServesFromCache
                    THEN ReadFromCache("get_item", 0, item_id,
                                       AnswerItems(GetItemFromCache(item_id)))
                    ELSE ReadFromStore("get_item", 0, item_id, query_ok,
                                       AnswerItems(GetItemFromStore(sheet_items, item_id)))
    /\ UNCHANGED <<cartVars, privacyVars, catalogVars, consentVars, taskVars,
                   sheetVars, parsed, handlerVars, now>>

\* ------------------------------------- item rows: status, unit, order steps

\* The texts that stand for the unit labels of config.py.
ITEM_UNIT_PCS == "pcs"

ITEM_UNIT_ML == "ml"

\* The status cells: the three labels, one of them padded with blanks, an
\* unknown label, a label in the wrong case, a blank cell and no cell.
StatusCells == {"available", " reserved ", "unavailable", "sold", "Available", "", NoneCell}

\* The unit cells: the two labels as configured and in other case and padding,
\* an unknown label, a blank cell and no cell.
UnitCells == {"ml", " ML ", "pcs", "Pcs", "l", "", NoneCell}

\* str.lower()
Lower(text) ==
    CASE text = "ML" -> "ml"
      [] text = "Pcs" -> "pcs"
      [] text = "Available" -> "available"
      [] OTHER -> text

\* The comma-separated tokens of an order-step cell.
StepTokens == {"2", "5", "10", "0", "-1", "oops"}

\* The longest order-step cell, in tokens.
MaxTokens == 3

\* The order-step cells: no cell, or the text as its tokens ("" has none).
StepCells ==
    {[none |-> TRUE, tokens |-> << >>]}
    \cup {[none |-> FALSE, tokens |-> t] : t \in SeqsUpTo(StepTokens, MaxTokens)}

\* float(token): << >> stands for ValueError.
ToFloat(token) ==
    CASE token = "2" -> <<2>>
      [] token = "5" -> <<5>>
      [] token = "10" -> <<10>>
      [] token = "0" -> <<0>>
      [] token = "-1" -> <<0 - 1>>
      [] OTHER -> << >>

\* sorted(list(set(values)))
RECURSIVE SortedList(_)
SortedList(values) ==
    IF values = {} THEN << >>
    ELSE LET least == CHOOSE v \in values : \A w \in values : v <= w
         IN <<least>> \o SortedList(values \ {least})

\* The cells of a row that decide status, unit, order steps and whether the
\* row parses at all.
DetailRows == [status : StatusCells, unit : UnitCells, steps : StepCells, price : RowPrices]

\* _parse_item_row, unit: the label compared stripped and in lower case;
\* anything but the milliliter label gives PCS.
ParseUnit(cell) ==
    LET raw_unit_val == IF cell = NoneCell THEN "" ELSE Lower(Strip(cell)) IN
    IF raw_unit_val = Lower(ITEM_UNIT_ML) THEN ITEM_UNIT_ML ELSE ITEM_UNIT_PCS

\* _parse_item_row, order steps of a milliliter item: the positive values of
\* the tokens float() reads, without repeats, ascending; the list stays empty
\* when there is none.
ParseStepsML(cell) ==
    LET values == {ToFloat(cell.tokens[k])[1] :
                     k \in {j \in 1..Len(cell.tokens) : ToFloat(cell.tokens[j]) # << >>}}
    IN SortedList({v \in values : v > 0})

\* _parse_item_row, order steps of a piece item: the whole text read as one
\* number after "," is replaced by "." ("5,0" reads as 5.0); [1] unless that
\* number is a positive integer.
ParseStepsPCS(cell) ==
    LET t == cell.tokens
        first == IF Len(t) >= 1 THEN ToFloat(t[1]) ELSE << >>
        whole == Len(t) = 1 \/ (Len(t) = 2 /\ t[2] = "0")
    IN IF whole /\ first # << >> /\ first[1] > 0 THEN <<first[1]>> ELSE <<1>>

\* _parse_item_row on the cells of DetailRows: << >> stands for None.
ParseDetail(row) ==
    IF row.price = "x" THEN << >>
    ELSE LET item_unit == ParseUnit(row.unit) IN
         <<[status |-> ParseStatus(row.status),
            unit |-> item_unit,
            order_steps |-> IF item_unit = ITEM_UNIT_ML THEN ParseStepsML(row.steps)
                            ELSE ParseStepsPCS(row.steps)]>>

\* get_item_cart_keyboard, milliliter item: the steps it makes buttons from.
OrderStepsToUse(order_steps) ==
    IF order_steps # << >> THEN order_steps ELSE <<1, 2, 3, 5, 10>>

NoDetail ==
    [row |-> [status |-> NoneCell, unit |-> NoneCell,
              steps |-> [none |-> TRUE, tokens |-> << >>], price |-> "10"],
     item |-> << >>, called |-> FALSE, order_steps_to_use |-> << >>]

\* _parse_item_row is called on the row.
parse_item_row ==
    /\ ~detail.called
    /\ detail' = [detail EXCEPT !.called = TRUE, !.item = ParseDetail(detail.row)]
    /\ UNCHANGED <<shelf, incr, adminOp, sessionVars>>
    /\ UNCHANGED <<cartVars, privacyVars, catalogVars, consentVars, taskVars,
                   sheetVars, readVars, now>>

\* get_item_cart_keyboard is called on the parsed item, a milliliter item on
\* sale (it makes step buttons for no other).
get_item_cart_keyboard ==
    /\ detail.called
    /\ detail.item # << >>
    /\ detail.item[1].status = ITEM_STATUS_AVAILABLE
    /\ detail.item[1].unit = ITEM_UNIT_ML
    /\ detail' = [detail EXCEPT
                    !.order_steps_to_use = OrderStepsToUse(detail.item[1].order_steps)]
    /\ UNCHANGED <<shelf, incr, adminOp, sessionVars>>
    /\ UNCHANGED <<cartVars, privacyVars, catalogVars, consentVars, taskVars,
                   sheetVars, readVars, now>>

\* ------------------------------------------- handlers: cart increase, admin

\* The largest available quantity of an item.
MaxStock == 2

\* Changes of the stock followed in one run.
MaxStockChanges == 1

\* The amounts a "cart:increase" callback carries: a negative one, one step,
\* and more than any stock.
Amounts == {0 - 1, 1, MaxStock + 1}

\* What get_item returns for an item: its quantity and status, "missing"
\* when there is no such item (None).
ShelfStates ==
    [quantity : 0..MaxStock,
     status : {ITEM_STATUS_AVAILABLE, ITEM_STATUS_RESERVED, "missing"}]

NoIncr == [user |-> 0, item |-> "", amount |-> 0, available |-> 0, current |-> 0,
           outcome |-> "none"]

\* A faulty clamp that adds the requested amount whatever the stock.
AmountToAddUnclamped(amount, can_add) == amount

\* cart_action_handler: amount_to_add = min(amount, can_add)
AmountToAdd(amount, can_add) == IF amount <= can_add THEN amount ELSE can_add

\* A faulty handler that does not look at the status of the item.
IncreaseOutcomeIgnoringStatus(item_data, amount_to_add) ==
    IF item_data.status = "missing" THEN "not_found"
    ELSE IF amount_to_add > 0 THEN "added" ELSE "refused"

\* cart_action_handler, action "increase": which branch the call ends in.
\* `if not item_data: return`, then `if item_data['status'] ==
\* ITEM_STATUS_RESERVED: return`, then `if amount_to_add > 0: add_to_cart`.
IncreaseOutcome(item_data, amount_to_add) ==
    IF item_data.status = "missing" THEN "not_found"
    ELSE IF item_data.status = ITEM_STATUS_RESERVED THEN "reserved"
    ELSE IF amount_to_add > 0 THEN "added" ELSE "refused"

\* cart_action_handler, action "increase", once check_privacy_accepted has
\* let the callback through. There is no await between get_item and
\* add_to_cart, so the rest of the handler is one step.
cart_increase ==
    \E u \in CartUsers, i \in ItemIds, amount \in Amounts :
        LET item_data == shelf[i]
            current_quantity == GetItemQuantity(carts, u, i)
            available_quantity == item_data.quantity
            can_add == available_quantity - current_quantity
            amount_to_add == AmountToAdd(amount, can_add)
            outcome == IncreaseOutcome(item_data, amount_to_add)
        IN
        /\ incr' = [user |-> u, item |-> i, amount |-> amount,
                    available |-> available_quantity, current |-> current_quantity,
                    outcome |-> outcome]
        /\ carts' = IF outcome = "not_found" THEN carts
                    ELSE IF outcome = "added"
                    THEN AddToCart(CartsGetItem(carts, u), u, i,
                                   current_quantity + amount_to_add)
                    ELSE CartsGetItem(carts, u)
        /\ cartOp' = IF outcome = "not_found" THEN cartOp
                     ELSE IF outcome = "added"
                     THEN [op |-> "add_to_cart", user |-> u, item |-> i,
                           qty |-> current_quantity + amount_to_add]
                     ELSE [op |-> "get_item_quantity", user |-> u, item |-> i, qty |-> 0]
        /\ UNCHANGED <<detail, shelf, adminOp, sessionVars>>
        /\ UNCHANGED <<privacyVars, catalogVars, consentVars, taskVars, sheetVars,
                       readVars, now>>

\* The items sheet is edited and get_item reads the new row: an item's
\* quantity or status changes, or the item goes or comes.
shelf_change ==
    /\ edits < MaxStockChanges
    /\ \E i \in ItemIds, st \in ShelfStates :
          /\ st # shelf[i]
          /\ shelf' = [shelf EXCEPT ![i] = st]
    /\ edits' = edits + 1
    /\ UNCHANGED <<sheet_items, labels_at_fetch>>
    /\ UNCHANGED <<detail, incr, adminOp, sessionVars>>
    /\ UNCHANGED <<cartVars, privacyVars, catalogVars, consentVars, taskVars,
                   readVars, now>>

NoAdminOp == [admin |-> FALSE, action |-> "none", outcome |-> "none",
              privacy_pass |-> FALSE, catalog_pass |-> FALSE]

\* is_admin: `user_id in app_config.ADMIN_IDS` with an int on the left and the
\* str that config() returns on the right raises TypeError.
IsAdminRaises == TRUE

\* The names sync_privacy_cache and sync_catalog_cache are bound in
\* handlers.py (they are not: only the module `rq` is imported).
SyncNamesBound == FALSE

\* process_admin_callback: how the call ends.
AdminOutcome(admin, action) ==
    IF IsAdminRaises THEN "TypeError"
    ELSE IF ~admin THEN "denied"
    ELSE IF action # "sync" THEN "done"
    ELSE IF SyncNamesBound THEN "synced" ELSE "NameError caught"

\* process_admin_callback on an "admin:" callback. The only outcome that
\* would run the two passes, "synced", needs both faults above absent.
process_admin_callback ==
    /\ \E admin \in BOOLEAN, action \in {"stats", "sync"} :
          adminOp' = [admin |-> admin, action |-> action,
                      outcome |-> AdminOutcome(admin, action),
                      privacy_pass |-> AdminOutcome(admin, action) = "synced",
                      catalog_pass |-> AdminOutcome(admin, action) = "synced"]
    /\ UNCHANGED <<detail, shelf, incr, sessionVars>>
    /\ UNCHANGED <<cartVars, privacyVars, catalogVars, consentVars, taskVars,
                   sheetVars, readVars, now>>

\* ----------------------------------------------- handlers: the consent gate

\* Handler invocations followed in one run.
MaxGateCalls == 3

\* The handlers that open with `if not await check_privacy_accepted(...):
\* return`: the five actions of cart_action_handler, and the catalog, item
\* and search handlers.
CartActions == {"cart:increase", "cart:decrease", "cart:reset", "cart:remove", "cart:clear"}

ContentHandlers == {"catalog", "item", "search"}

NoGate == [n |-> 0, user |-> 0, handler |-> "none", lookup |-> "none",
           passed |-> FALSE, served |-> FALSE]

\* get_user_privacy_status as check_privacy_accepted sees it: "true" or
\* "false" from the fresh cache or from the user's row, "error" when the
\* query raises.
GetUserPrivacyStatus(tg_id, query_ok) ==
    IF PrivacyServesFromCache
    THEN IF IsAccepted(tg_id) THEN "true" ELSE "false"
    ELSE IF ~query_ok THEN "error"
    ELSE IF sheet_users[tg_id] = "yes" THEN "true" ELSE "false"

\* A faulty gate whose except clause lets the caller through.
CheckPrivacyAcceptedFailOpen(lookup) == lookup # "false"

\* check_privacy_accepted: True only when the lookup returned a true value;
\* `if not privacy_accepted: ... return False`, `except Exception: return False`.
CheckPrivacyAccepted(lookup) == lookup = "true"

\* The cart after a cart action that got through the gate; amounts are one
\* unit. "increase" and "decrease" first look the item up and return when
\* it is missing.
CartAfterAction(c, u, handler, i) ==
    LET item_data == shelf[i]
        current_quantity == GetItemQuantity(c, u, i)
        amount_to_add == AmountToAdd(1, item_data.quantity - current_quantity)
        new_quantity == IF current_quantity - 1 > 0 THEN current_quantity - 1 ELSE 0
    IN
    CASE handler = "cart:increase" ->
            IF IncreaseOutcome(item_data, amount_to_add) = "added"
            THEN AddToCart(CartsGetItem(c, u), u, i, current_quantity + amount_to_add)
            ELSE IF item_data.status = "missing" THEN c ELSE CartsGetItem(c, u)
      [] handler = "cart:decrease" ->
            IF item_data.status = "missing" THEN c
            ELSE AddToCart(CartsGetItem(c, u), u, i, new_quantity)
      [] handler \in {"cart:reset", "cart:remove"} -> RemoveFromCart(c, u, i)
      [] handler = "cart:clear" -> ClearCart(c, u)
      [] OTHER -> c

\* One callback or message for a gated handler: the lookup, the gate, and
\* behind the gate the cart action or the content.
gated_handler ==
    /\ gate.n < MaxGateCalls
    /\ \E u \in CartUsers, handler \in CartActions \cup ContentHandlers,
          i \in ItemIds, query_ok \in BOOLEAN :
          LET lookup == GetUserPrivacyStatus(u, query_ok)
              passed == CheckPrivacyAccepted(lookup)
          IN
          /\ gate' = [n |-> gate.n + 1, user |-> u, handler |-> handler,
                      lookup |-> lookup, passed |-> passed,
                      served |-> passed /\ handler \in ContentHandlers]
          /\ carts' = IF passed THEN CartAfterAction(carts, u, handler, i) ELSE carts
    /\ UNCHANGED <<cartOp, detail, shelf, incr, adminOp, order, race, walk, sweeps, bt>>
    /\ UNCHANGED <<privacyVars, catalogVars, consentVars, taskVars, sheetVars,
                   readVars, now>>

\* ------------------------------------------------- handlers: checkout start

\* "order" callbacks followed in one run.
MaxOrders == 2

NoOrder == [n |-> 0, user |-> 0, outcome |-> "none"]

\* start_order: with an empty cart it answers that the cart is empty and
\* returns; otherwise it shows the summary of the saved order data, or asks
\* for the name when nothing is saved. The only CartCache call is get_cart.
start_order ==
    /\ order.n < MaxOrders
    /\ \E u \in CartUsers, saved_data \in BOOLEAN :
          LET cart == GetCart(carts, u) IN
          /\ order' = [n |-> order.n + 1, user |-> u,
                       outcome |-> IF DOMAIN cart = {} THEN "empty"
                                   ELSE IF saved_data THEN "summary" ELSE "ask_name"]
          /\ carts' = CartsGetItem(carts, u)
          /\ cartOp' = [op |-> "get_cart", user |-> u, item |-> "", qty |-> 0]
    /\ UNCHANGED <<detail, shelf, incr, adminOp, gate, race, walk, sweeps, bt>>
    /\ UNCHANGED <<privacyVars, catalogVars, consentVars, taskVars, sheetVars,
                   readVars, now>>

\* ------------------------------- handlers: concurrent increase and decrease

\* cart_action_handler calls in flight at once.
MaxJobs == 3

Jobs == 1..MaxJobs

\* The user and the item all the calls in flight are about.
RaceUser == 1

RaceItem == "i1"

\* The amounts the callbacks in flight carry.
JobAmounts == {1, 2}

NoJob == [pc |-> "idle", kind |-> "none", amount |-> 0, available |-> 0,
          status |-> "none", current |-> 0, written |-> 0, overlapped |-> FALSE]

NoRace == [turn |-> 0, jobs |-> [j \in Jobs |-> NoJob]]

\* A faulty handler that awaits between reading the cart quantity and
\* writing the new one.
IsHandlerSuspensionPointAfterRead(pc) == pc \in {"await_get_item", "have_quantity"}

\* Where cart_action_handler can be suspended in its increase and decrease
\* branches: at `await rq.get_item(item_id)`. From get_item_quantity to
\* add_to_cart there is no await.
IsHandlerSuspensionPoint(pc) == pc = "await_get_item"

\* The cart quantity a handler leaves when it finds quantity q in the cart,
\* given the item_data it read: the increase adds min(amount, available - q)
\* when that is positive and the item is not reserved, the decrease stores
\* max(0, q - amount); both return when the item is missing.
QuantityAfter(q, job) ==
    IF job.status = "missing" THEN q
    ELSE IF job.kind = "increase"
    THEN IF job.status = ITEM_STATUS_RESERVED THEN q
         ELSE IF AmountToAdd(job.amount, job.available - q) > 0
         THEN q + AmountToAdd(job.amount, job.available - q)
         ELSE q
    ELSE IF q - job.amount > 0 THEN q - job.amount ELSE 0

\* The calls that have started and not yet returned.
InFlight == {k \in Jobs : race.jobs[k].pc \notin {"idle", "done"}}

\* A "cart:increase" or "cart:decrease" callback arrives and the handler
\* runs up to `await rq.get_item(item_id)`.
job_start ==
    /\ race.turn = 0
    /\ \E j \in Jobs, kind \in {"increase", "decrease"}, amount \in JobAmounts :
          /\ race.jobs[j].pc = "idle"
          /\ \A k \in Jobs : k < j => race.jobs[k].pc # "idle"
          /\ race' = [race EXCEPT !.jobs =
                [k \in Jobs |->
                    IF k = j
                    THEN [NoJob EXCEPT !.pc = "await_get_item", !.kind = kind,
                                       !.amount = amount,
                                       !.overlapped = InFlight # {}]
                    ELSE IF k \in InFlight
                    THEN [race.jobs[k] EXCEPT !.overlapped = TRUE]
                    ELSE race.jobs[k]]]
    /\ UNCHANGED <<detail, shelf, incr, adminOp, gate, order, walk, sweeps, bt>>
    /\ UNCHANGED <<cartVars, privacyVars, catalogVars, consentVars, taskVars,
                   sheetVars, readVars, now>>

\* The query of get_item runs in the executor and reads the row as it is
\* now; the handler is resumed later.
job_query ==
    /\ \E j \in Jobs :
          /\ race.jobs[j].pc = "await_get_item"
          /\ race' = [race EXCEPT !.jobs[j].pc = "item_ready",
                                  !.jobs[j].available = shelf[RaceItem].quantity,
                                  !.jobs[j].status = shelf[RaceItem].status]
    /\ UNCHANGED <<detail, shelf, incr, adminOp, gate, order, walk, sweeps, bt>>
    /\ UNCHANGED <<cartVars, privacyVars, catalogVars, consentVars, taskVars,
                   sheetVars, readVars, now>>

\* The handler is resumed with item_data: it returns when the item is
\* missing, and otherwise reads current_quantity from the cart; the increase
\* then returns when the item is reserved.
job_read ==
    /\ race.turn = 0
    /\ \E j \in Jobs :
          LET job == race.jobs[j]
              ends == \/ job.status = "missing"
                      \/ (job.kind = "increase" /\ job.status = ITEM_STATUS_RESERVED)
          IN
          /\ job.pc = "item_ready"
          /\ race' = [race EXCEPT
                        !.jobs[j].pc = IF ends THEN "done" ELSE "have_quantity",
                        !.jobs[j].current = IF job.status = "missing" THEN 0
                                            ELSE GetItemQuantity(carts, RaceUser, RaceItem),
                        !.jobs[j].written = IF job.status = "missing" THEN 0
                                            ELSE GetItemQuantity(carts, RaceUser, RaceItem),
                        !.turn = IF ends \/ IsHandlerSuspensionPoint("have_quantity")
                                 THEN 0 ELSE j]
          /\ carts' = IF job.status = "missing" THEN carts
                      ELSE CartsGetItem(carts, RaceUser)
          /\ cartOp' = IF job.status = "missing" THEN cartOp
                       ELSE [op |-> "get_item_quantity", user |-> RaceUser,
                             item |-> RaceItem, qty |-> 0]
    /\ UNCHANGED <<detail, shelf, incr, adminOp, gate, order, walk, sweeps, bt>>
    /\ UNCHANGED <<privacyVars, catalogVars, consentVars, taskVars,
                   sheetVars, readVars, now>>

\* The handler goes on from current_quantity: the increase calls add_to_cart
\* with current_quantity + amount_to_add when amount_to_add > 0, the
\* decrease calls add_to_cart with max(0, current_quantity - amount).
job_write ==
    /\ \E j \in Jobs :
          LET job == race.jobs[j]
              new_quantity == QuantityAfter(job.current, job)
              writes == job.kind = "decrease" \/ new_quantity # job.current
          IN
          /\ job.pc = "have_quantity"
          /\ \/ race.turn = j
             \/ (race.turn = 0 /\ IsHandlerSuspensionPoint("have_quantity"))
          /\ race' = [race EXCEPT !.jobs[j].pc = "done",
                                  !.jobs[j].written = new_quantity,
                                  !.turn = 0]
          /\ carts' = IF writes THEN AddToCart(carts, RaceUser, RaceItem, new_quantity)
                      ELSE carts
          /\ cartOp' = IF writes
                       THEN [op |-> "add_to_cart", user |-> RaceUser, item |-> RaceItem,
                             qty |-> new_quantity]
                       ELSE cartOp
    /\ UNCHANGED <<detail, shelf, incr, adminOp, gate, order, walk, sweeps, bt>>
    /\ UNCHANGED <<privacyVars, catalogVars, consentVars, taskVars,
                   sheetVars, readVars, now>>

\* The orders in which the calls in flight can be lined up.
JobOrders == {p \in [Jobs -> Jobs] : \A a, b \in Jobs : p[a] = p[b] => a = b}

\* The cart quantity after the handlers have run one after another in the
\* order p, from the k-th on, starting from quantity q.
RECURSIVE ApplyInOrder(_, _, _)
ApplyInOrder(q, p, k) ==
    IF k > MaxJobs THEN q
    ELSE ApplyInOrder(QuantityAfter(q, race.jobs[p[k]]), p, k + 1)

\* ------------------------------------------------ handlers: the cart view

\* Cart views followed in one run.
MaxWalks == 2

NoWalk == [n |-> 0, pc |-> "idle", user |-> 0, used |-> 0, visited |-> {},
           start |-> << >>, rendered |-> << >>]

\* cart_handler up to its first await inside the loop. get_cart returns the
\* dict of the cache itself, not a copy; `for item_id, quantity in
\* cart.items()` makes an iterator over it that remembers the size of the
\* dict, takes the first entry, and the body awaits rq.get_item. An empty
\* cart is rendered at once. The dict keeps its entries in insertion order;
\* carts are kept here as mappings and the iterator may take any entry it
\* has not yet taken.
walk_start ==
    /\ walk.n < MaxWalks
    /\ walk.pc \in {"idle", "done", "failed"}
    /\ \E u \in CartUsers :
          LET cart == GetCart(carts, u) IN
          /\ carts' = CartsGetItem(carts, u)
          /\ cartOp' = [op |-> "get_cart", user |-> u, item |-> "", qty |-> 0]
          /\ IF DOMAIN cart = {}
             THEN walk' = [NoWalk EXCEPT !.n = walk.n + 1, !.pc = "done", !.user = u]
             ELSE \E first \in DOMAIN cart :
                     walk' = [n |-> walk.n + 1, pc |-> "await_item", user |-> u,
                              used |-> Cardinality(DOMAIN cart), visited |-> {first},
                              start |-> cart,
                              rendered |-> DictSet(<< >>, first, cart[first])]
    /\ UNCHANGED <<detail, shelf, incr, adminOp, gate, order, race, sweeps, bt>>
    /\ UNCHANGED <<privacyVars, catalogVars, consentVars, taskVars, sheetVars,
                   readVars, now>>

\* rq.get_item has returned and the loop asks the iterator for the next
\* entry. The iterator raises RuntimeError ("dictionary changed size during
\* iteration") when the dict no longer has the size it had when the loop
\* began; cart_handler catches nothing, so the handler ends there. Otherwise
\* the loop ends after as many entries as that size, or goes on with an
\* entry of the dict as it is now.
walk_next ==
    /\ walk.pc = "await_item"
    /\ LET cart == GetCart(carts, walk.user) IN
       IF Cardinality(DOMAIN cart) # walk.used
       THEN walk' = [walk EXCEPT !.pc = "failed"]
       ELSE IF Cardinality(walk.visited) = walk.used
       THEN walk' = [walk EXCEPT !.pc = "done"]
       ELSE \E next \in (DOMAIN cart) \ walk.visited :
               walk' = [walk EXCEPT !.visited = walk.visited \cup {next},
                                    !.rendered = DictSet(walk.rendered, next, cart[next])]
    /\ UNCHANGED <<detail, shelf, incr, adminOp, gate, order, race, sweeps, bt>>
    /\ UNCHANGED <<cartVars, privacyVars, catalogVars, consentVars, taskVars,
                   sheetVars, readVars, now>>

\* ------------------------------------- overlapping catalog reconciliations

\* The callers whose sync_catalog_cache calls can be in flight together: the
\* catalog task, and a handler whose read found the cache stale.
Passes == {"periodic", "inline"}

NoSweep == [pc |-> "idle", cats |-> << >>, items |-> << >>, fetched |-> 0]

NoSweeps == [jobs |-> [p \in Passes |-> NoSweep], fetches |-> 0]

\* sync_catalog_cache is called and runs up to the await inside
\* get_all_categories_from_gsheets.
sweep_begin ==
    /\ \E p \in Passes :
          /\ sweeps.jobs[p].pc = "idle"
          /\ sweeps' = [sweeps EXCEPT !.jobs[p].pc = "await_categories"]
    /\ UNCHANGED <<detail, shelf, incr, adminOp, gate, order, race, walk, bt>>
    /\ UNCHANGED <<cartVars, privacyVars, catalogVars, consentVars, taskVars,
                   sheetVars, readVars, now>>

\* The category query runs in the executor on the sheet as it is now; the
\* pass is resumed with the list and goes on to the await inside
\* get_all_items_from_gsheets.
sweep_fetch_categories ==
    /\ \E p \in Passes :
          /\ sweeps.jobs[p].pc = "await_categories"
          /\ sweeps' = [sweeps EXCEPT
                          !.jobs[p].pc = "await_items",
                          !.jobs[p].cats = GetAllCategoriesFromGsheets(sheet_items)]
    /\ UNCHANGED <<detail, shelf, incr, adminOp, gate, order, race, walk, bt>>
    /\ UNCHANGED <<cartVars, privacyVars, catalogVars, consentVars, taskVars,
                   sheetVars, readVars, now>>

\* The item query runs in the executor on the sheet as it is now; its
\* result waits for the event loop to resume the pass.
sweep_fetch_items ==
    /\ \E p \in Passes :
          /\ sweeps.jobs[p].pc = "await_items"
          /\ sweeps' = [sweeps EXCEPT
                          !.jobs[p].pc = "items_ready",
                          !.jobs[p].items = GetAllItemsFromGsheets(sheet_items),
                          !.jobs[p].fetched = sweeps.fetches + 1,
                          !.fetches = sweeps.fetches + 1]
    /\ UNCHANGED <<detail, shelf, incr, adminOp, gate, order, race, walk, bt>>
    /\ UNCHANGED <<cartVars, privacyVars, catalogVars, consentVars, taskVars,
                   sheetVars, readVars, now>>

\* The pass is resumed with the items: it groups them and calls
\* catalog_cache.initialize or update, which replace the cache in one step.
\* The pass holds no lock and compares no version: it installs what it
\* fetched whenever it is resumed.
sweep_install ==
    /\ \E p \in Passes :
          LET job == sweeps.jobs[p] IN
          /\ job.pc = "items_ready"
          /\ sweeps' = [sweeps EXCEPT !.jobs[p].pc = "done"]
          /\ CatalogReplace(job.cats, GroupByCategory(<< >>, job.items))
          /\ catOp' = [op |-> IF c_initialized THEN "update" ELSE "initialize",
                       repeated |-> FALSE]
          /\ committed' = [cats |-> job.cats, items |-> job.items, init |-> TRUE]
    /\ UNCHANGED <<running, is_running, loop_pc, loop_cats, loop_items, loop_todo,
                   cancel_pending, stop_pc, seen, loop_failed, ploopVars, mainVars>>
    /\ UNCHANGED <<detail, shelf, incr, adminOp, gate, order, race, walk, bt>>
    /\ UNCHANGED <<cartVars, privacyVars, consentVars, sheetVars, readVars, now>>

\* The pass whose item fetch was made last.
LatestFetcher == CHOOSE p \in Passes : sweeps.jobs[p].fetched = sweeps.fetches

\* ------------------------------------------ BackgroundTasks.start and stop

\* Tasks created in one run.
MaxTasks == 4

\* start() and stop() calls made in one run.
MaxCalls == 4

TaskIds == 1..MaxTasks

LoopKinds == {"privacy", "catalog"}

NoTask == [kind |-> "none", state |-> "none", at |-> "none"]

NoBt == [is_running |-> FALSE, privacy_task |-> 0, catalog_task |-> 0,
         tasks |-> [t \in TaskIds |-> NoTask], created |-> 0, call |-> "none",
         calls |-> 0, last |-> [op |-> "none", was_running |-> FALSE, made |-> 0]]

\* A faulty start that creates its tasks whatever the flag says.
StartNeverReturnsEarly(is_running_flag) == FALSE

\* BackgroundTasks.start: `if self._is_running: ... return`
StartReturnsEarly(is_running_flag) == is_running_flag

\* Task.cancel(): a task that has not ended gets CancelledError at its
\* await; a task that has ended is left alone.
Cancelled(tasks, t) ==
    IF t \in TaskIds /\ tasks[t].state = "live"
    THEN [tasks EXCEPT ![t].state = "cancelling"]
    ELSE tasks

\* The tasks of one kind that have been created and have not ended.
ActiveLoops(kind) ==
    {t \in TaskIds : bt.tasks[t].kind = kind /\ bt.tasks[t].state \in {"live", "cancelling"}}

\* start(), called while no other call on the object is in progress. It
\* awaits nothing: the test of the flag, the flag and the two create_task
\* calls are one step.
bt_start ==
    /\ bt.call = "none"
    /\ bt.calls < MaxCalls
    /\ IF StartReturnsEarly(bt.is_running)
       THEN bt' = [bt EXCEPT !.calls = bt.calls + 1,
                             !.last = [op |-> "start", was_running |-> bt.is_running,
                                       made |-> 0]]
       ELSE /\ bt.created + 2 <= MaxTasks
            /\ bt' = [bt EXCEPT
                        !.calls = bt.calls + 1,
                        !.is_running = TRUE,
                        !.privacy_task = bt.created + 1,
                        !.catalog_task = bt.created + 2,
                        !.tasks = [t \in TaskIds |->
                                     IF t = bt.created + 1
                                     THEN [kind |-> "privacy", state |-> "live", at |-> "head"]
                                     ELSE IF t = bt.created + 2
                                     THEN [kind |-> "catalog", state |-> "live", at |-> "head"]
                                     ELSE bt.tasks[t]],
                        !.created = bt.created + 2,
                        !.last = [op |-> "start", was_running |-> bt.is_running,
                                  made |-> 2]]
    /\ UNCHANGED <<detail, shelf, incr, adminOp, gate, order, race, walk, sweeps>>
    /\ UNCHANGED <<cartVars, privacyVars, catalogVars, consentVars, taskVars,
                   sheetVars, readVars, now>>

\* stop() up to `await self._privacy_sync_task`: it returns at once when the
\* flag is down, otherwise lowers the flag and cancels the privacy task.
bt_stop_begin ==
    /\ bt.call = "none"
    /\ bt.calls < MaxCalls
    /\ IF ~bt.is_running
       THEN bt' = [bt EXCEPT !.calls = bt.calls + 1,
                             !.last = [op |-> "stop", was_running |-> FALSE, made |-> 0]]
       ELSE bt' = [bt EXCEPT !.calls = bt.calls + 1,
                             !.is_running = FALSE,
                             !.tasks = Cancelled(bt.tasks, bt.privacy_task),
                             !.call = "await_privacy",
                             !.last = [op |-> "stop", was_running |-> TRUE, made |-> 0]]
    /\ UNCHANGED <<detail, shelf, incr, adminOp, gate, order, race, walk, sweeps>>
    /\ UNCHANGED <<cartVars, privacyVars, catalogVars, consentVars, taskVars,
                   sheetVars, readVars, now>>

\* A loop task runs from one await to the next: from `while
\* self._is_running`, with the flag up, into the pass, and from the pass
\* into the sleep; the sleep over, it is at the head of the loop again.
bt_task_step ==
    /\ \E t \in TaskIds :
          /\ bt.tasks[t].state = "live"
          /\ \/ /\ bt.tasks[t].at = "head"
                /\ bt.is_running
                /\ bt' = [bt EXCEPT !.tasks[t].at = "pass"]
             \/ /\ bt.tasks[t].at = "pass"
                /\ bt' = [bt EXCEPT !.tasks[t].at = "sleep"]
             \/ /\ bt.tasks[t].at = "sleep"
                /\ bt' = [bt EXCEPT !.tasks[t].at = "head"]
    /\ UNCHANGED <<detail, shelf, incr, adminOp, gate, order, race, walk, sweeps>>
    /\ UNCHANGED <<cartVars, privacyVars, catalogVars, consentVars, taskVars,
                   sheetVars, readVars, now>>

\* A loop task ends: CancelledError reaches it at its await (the sleep
\* catches it and breaks, a pass lets it through, a task that never ran is
\* dropped), or it finds the flag down at `while self._is_running` and
\* returns.
bt_task_ends ==
    /\ \E t \in TaskIds :
          /\ \/ bt.tasks[t].state = "cancelling"
             \/ (bt.tasks[t].state = "live" /\ bt.tasks[t].at = "head" /\ ~bt.is_running)
          /\ bt' = [bt EXCEPT !.tasks[t].state = "ended"]
    /\ UNCHANGED <<detail, shelf, incr, adminOp, gate, order, race, walk, sweeps>>
    /\ UNCHANGED <<cartVars, privacyVars, catalogVars, consentVars, taskVars,
                   sheetVars, readVars, now>>

\* stop() resumed once the privacy task has ended: it cancels the catalog
\* task and awaits it.
bt_stop_cancel_catalog ==
    /\ bt.call = "await_privacy"
    /\ bt.tasks[bt.privacy_task].state = "ended"
    /\ bt' = [bt EXCEPT !.tasks = Cancelled(bt.tasks, bt.catalog_task),
                         !.call = "await_catalog"]
    /\ UNCHANGED <<detail, shelf, incr, adminOp, gate, order, race, walk, sweeps>>
    /\ UNCHANGED <<cartVars, privacyVars, catalogVars, consentVars, taskVars,
                   sheetVars, readVars, now>>

\* stop() resumed once the catalog task has ended: it returns.
bt_stop_return ==
    /\ bt.call = "await_catalog"
    /\ bt.tasks[bt.catalog_task].state = "ended"
    /\ bt' = [bt EXCEPT !.call = "none"]
    /\ UNCHANGED <<detail, shelf, incr, adminOp, gate, order, race, walk, sweeps>>
    /\ UNCHANGED <<cartVars, privacyVars, catalogVars, consentVars, taskVars,
                   sheetVars, readVars, now>>

SessionInit ==
    /\ gate = NoGate
    /\ order = NoOrder
    /\ race = NoRace
    /\ walk = NoWalk
    /\ sweeps = NoSweeps
    /\ bt = NoBt

HandlerInit ==
    /\ detail = NoDetail
    /\ shelf = [i \in ItemIds |-> [quantity |-> 0, status |-> "missing"]]
    /\ incr = NoIncr
    /\ adminOp = NoAdminOp
    /\ SessionInit

\* --------------------------------- catalog loop, statement by statement

\* The asyncio event loop runs one task at a time and switches tasks only
\* where the running task awaits. The catalog task is followed statement by
\* statement through CatalogCache.initialize / update; every other task
\* starts a step only at a scheduling point.

\* A faulty update that awaits between assigning the buckets and rebuilding
\* the id index.
IsSuspensionPointMidReplace(pc) ==
    pc \in {"fetch_categories", "fetch_items", "sleep", "reset_by_id"}

\* The positions of the catalog task that are awaits: the two fetches of
\* sync_catalog_cache and the sleep of the loop.
IsSuspensionPoint(pc) == pc \in {"fetch_categories", "fetch_items", "sleep"}

\* A faulty loop whose task ends when a pass fails.
LoopAfterFailureExit == "exited"

\* Where a background loop goes on after a pass that failed: the exception is
\* caught and logged (in the sync function, or by the loop's own except
\* clause) and the loop reaches its sleep.
LoopAfterFailure == "sleep"

\* A faulty startup that gives up when the last attempt has failed.
AfterLastAttemptRefuse == "refused"

\* Where run.main goes on after the last startup attempt has raised: the
\* error is logged and the retry loop is left.
AfterLastAttempt == "start_bg"

\* A faulty run.main that starts the background tasks before the startup
\* retry loop.
MayStartBackgroundEarly(pc) == pc \in {"setup", "start_bg"}

\* run.main reaches background_tasks.start() after the startup retry loop.
MayStartBackground(pc) == pc = "start_bg"

\* A faulty stop that cancels the tasks and returns without awaiting them.
StopMayReturnUnawaited(ppc, cpc) == TRUE

\* BackgroundTasks.stop returns when both awaited tasks have ended.
StopMayReturn(ppc, cpc) ==
    ppc \in {"exited", "cancelled"} /\ cpc \in {"exited", "cancelled"}

\* Who holds the event loop once the catalog task has moved to pc: nobody
\* when it awaits or has ended.
Release(pc) ==
    IF IsSuspensionPoint(pc) \/ pc \in {"exited", "cancelled"} THEN "none"
    ELSE "catalog_loop"

\* The catalog task may take its next step: it is running, or the event loop
\* is free and resumes it where it awaits (a cancelled task is resumed only
\* to raise CancelledError).
LoopMayRun ==
    \/ running = "catalog_loop"
    \/ /\ running = "none"
       /\ ~cancel_pending
       /\ (loop_pc = "created" \/ IsSuspensionPoint(loop_pc))

\* The cache holds exactly what the last completed full replace was given.
CatalogWhole ==
    LET ibc == GroupByCategory(<< >>, committed.items) IN
    /\ categories = committed.cats
    /\ items_by_category = ibc
    /\ items_by_id = ItemsById(ibc)
    /\ c_initialized = committed.init

\* run.main calls BackgroundTasks.start, which creates the two tasks, and goes
\* on to start polling.
bg_start ==
    /\ running = "none"
    /\ ~is_running
    /\ loop_pc = "none"
    /\ MayStartBackground(main_pc)
    /\ main_pc' = "polling"
    /\ ploop_pc' = "created"
    /\ is_running' = TRUE
    /\ loop_pc' = "created"
    /\ UNCHANGED <<running, loop_cats, loop_items, loop_todo, cancel_pending, stop_pc,
                   seen, committed>>
    /\ UNCHANGED <<loop_failed, p_cancel_pending, attempt, startup_result>>
    /\ UNCHANGED <<catalogVars, nonTaskVars>>

\* _sync_catalog_periodically: the while test, and into sync_catalog_cache up
\* to its first await. (Waking with the interval not yet over sleeps again.)
loop_head ==
    /\ LoopMayRun
    /\ loop_pc \in {"created", "sleep"}
    /\ loop_pc' = IF is_running THEN "fetch_categories" ELSE "exited"
    /\ running' = Release(loop_pc')
    /\ UNCHANGED <<is_running, loop_cats, loop_items, loop_todo, cancel_pending, stop_pc,
                   seen, committed>>
    /\ UNCHANGED <<loop_failed, ploopVars, mainVars>>
    /\ UNCHANGED <<catalogVars, nonTaskVars>>


\* A faulty pass that stores the fetched category list at once, before the
\* items are fetched.
CategoriesStoredAtOnce(cached, current_categories) == current_categories

\* sync_catalog_cache keeps the fetched list in the local current_categories
\* until both fetches have returned: the cached list stays as it is meanwhile.
CategoriesWhileFetching(cached, current_categories) == cached

\* await get_all_categories_from_gsheets() returns or raises; a raise is
\* logged by sync_catalog_cache and the loop goes to sleep.
loop_fetch_categories ==
    /\ LoopMayRun
    /\ loop_pc = "fetch_categories"
    /\ \/ /\ loop_cats' = GetAllCategoriesFromGsheets(sheet_items)
          /\ labels_at_fetch' = RowLabels(sheet_items)
          /\ loop_pc' = "fetch_items"
          /\ UNCHANGED loop_failed
       \/ /\ loop_cats' = << >>
          /\ loop_pc' = LoopAfterFailure
          /\ loop_failed' = TRUE
          /\ UNCHANGED labels_at_fetch
    /\ running' = Release(loop_pc')
    /\ UNCHANGED <<is_running, loop_items, loop_todo, cancel_pending, stop_pc,
                   seen, committed>>
    /\ UNCHANGED ploopVars
    /\ UNCHANGED mainVars
    /\ categories' = CategoriesWhileFetching(categories, loop_cats')
    /\ UNCHANGED <<items_by_category, items_by_id, c_initialized, c_last_update, catOp>>
    /\ UNCHANGED <<cartVars, privacyVars, consentVars, sheet_items, edits, readVars,
                   handlerVars, now>>

\* await get_all_items_from_gsheets() returns or raises; on return the task
\* groups the items and enters initialize or update.
loop_fetch_items ==
    /\ LoopMayRun
    /\ loop_pc = "fetch_items"
    /\ \/ /\ loop_items' = GetAllItemsFromGsheets(sheet_items)
          /\ loop_pc' = "set_categories"
          /\ UNCHANGED <<loop_cats, loop_failed>>
       \/ /\ loop_items' = << >>
          /\ loop_cats' = << >>
          /\ loop_pc' = LoopAfterFailure
          /\ loop_failed' = TRUE
    /\ running' = Release(loop_pc')
    /\ UNCHANGED <<is_running, loop_todo, cancel_pending, stop_pc, seen, committed>>
    /\ UNCHANGED ploopVars
    /\ UNCHANGED mainVars
    /\ UNCHANGED <<catalogVars, nonTaskVars>>

\* self._categories = categories
loop_set_categories ==
    /\ LoopMayRun
    /\ loop_pc = "set_categories"
    /\ categories' = loop_cats
    /\ catOp' = [op |-> IF c_initialized THEN "update" ELSE "initialize",
                 repeated |-> FALSE]
    /\ loop_pc' = "set_by_category"
    /\ running' = Release(loop_pc')
    /\ UNCHANGED <<items_by_category, items_by_id, c_initialized, c_last_update>>
    /\ UNCHANGED <<is_running, loop_cats, loop_items, loop_todo, cancel_pending, stop_pc,
                   seen, committed>>
    /\ UNCHANGED <<loop_failed, ploopVars, mainVars>>
    /\ UNCHANGED nonTaskVars

\* self._items_by_category = items_by_category
loop_set_by_category ==
    /\ LoopMayRun
    /\ loop_pc = "set_by_category"
    /\ items_by_category' = GroupByCategory(<< >>, loop_items)
    /\ loop_pc' = "reset_by_id"
    /\ running' = Release(loop_pc')
    /\ UNCHANGED <<categories, items_by_id, c_initialized, c_last_update, catOp>>
    /\ UNCHANGED <<is_running, loop_cats, loop_items, loop_todo, cancel_pending, stop_pc,
                   seen, committed>>
    /\ UNCHANGED <<loop_failed, ploopVars, mainVars>>
    /\ UNCHANGED nonTaskVars

\* self._items_by_id = {}
loop_reset_by_id ==
    /\ LoopMayRun
    /\ loop_pc = "reset_by_id"
    /\ items_by_id' = << >>
    /\ loop_todo' = FlattenBuckets(items_by_category, 1)
    /\ loop_pc' = "index"
    /\ running' = Release(loop_pc')
    /\ UNCHANGED <<categories, items_by_category, c_initialized, c_last_update, catOp>>
    /\ UNCHANGED <<is_running, loop_cats, loop_items, cancel_pending, stop_pc,
                   seen, committed>>
    /\ UNCHANGED <<loop_failed, ploopVars, mainVars>>
    /\ UNCHANGED nonTaskVars

\* self._items_by_id[item['id']] = item, once per item; then the loop ends.
loop_index ==
    /\ LoopMayRun
    /\ loop_pc = "index"
    /\ IF loop_todo = << >>
       THEN /\ loop_pc' = "set_initialized"
            /\ UNCHANGED <<items_by_id, loop_todo>>
       ELSE /\ items_by_id' = DictSet(items_by_id, Head(loop_todo).id, Head(loop_todo))
            /\ loop_todo' = Tail(loop_todo)
            /\ UNCHANGED loop_pc
    /\ running' = Release(loop_pc')
    /\ UNCHANGED <<categories, items_by_category, c_initialized, c_last_update, catOp>>
    /\ UNCHANGED <<is_running, loop_cats, loop_items, cancel_pending, stop_pc,
                   seen, committed>>
    /\ UNCHANGED <<loop_failed, ploopVars, mainVars>>
    /\ UNCHANGED nonTaskVars

\* self._initialized = True
loop_set_initialized ==
    /\ LoopMayRun
    /\ loop_pc = "set_initialized"
    /\ c_initialized' = TRUE
    /\ loop_pc' = "set_last_update"
    /\ running' = Release(loop_pc')
    /\ UNCHANGED <<categories, items_by_category, items_by_id, c_last_update, catOp>>
    /\ UNCHANGED <<is_running, loop_cats, loop_items, loop_todo, cancel_pending, stop_pc,
                   seen, committed>>
    /\ UNCHANGED <<loop_failed, ploopVars, mainVars>>
    /\ UNCHANGED nonTaskVars

\* self._last_update = time.time(), then back through sync_catalog_cache to
\* the sleep of the loop.
loop_set_last_update ==
    /\ LoopMayRun
    /\ loop_pc = "set_last_update"
    /\ c_last_update' = now
    /\ committed' = [cats |-> loop_cats, items |-> loop_items, init |-> TRUE]
    /\ loop_cats' = << >>
    /\ loop_items' = << >>
    /\ loop_pc' = "sleep"
    /\ loop_failed' = FALSE
    /\ running' = Release(loop_pc')
    /\ UNCHANGED <<categories, items_by_category, items_by_id, c_initialized, catOp>>
    /\ UNCHANGED <<is_running, loop_todo, cancel_pending, stop_pc, seen>>
    /\ UNCHANGED ploopVars
    /\ UNCHANGED mainVars
    /\ UNCHANGED nonTaskVars

\* CancelledError is raised where the task awaits: the sleep catches it and
\* breaks out of the loop; in a fetch it passes every "except Exception" and
\* ends the task.
loop_cancelled ==
    /\ running = "none"
    /\ cancel_pending
    /\ loop_pc = "created" \/ IsSuspensionPoint(loop_pc)
    /\ loop_pc' = IF loop_pc = "sleep" THEN "exited" ELSE "cancelled"
    /\ cancel_pending' = FALSE
    /\ loop_cats' = << >>
    /\ loop_items' = << >>
    /\ UNCHANGED <<running, is_running, loop_todo, stop_pc, seen, committed>>
    /\ UNCHANGED <<loop_failed, ploopVars, mainVars>>
    /\ UNCHANGED <<catalogVars, nonTaskVars>>

\* BackgroundTasks.stop: clear the flag, cancel the privacy task, await it.
stop_begin ==
    /\ running = "none"
    /\ is_running
    /\ stop_pc = "idle"
    /\ main_pc = "stopping"
    /\ is_running' = FALSE
    /\ p_cancel_pending' = (ploop_pc \notin {"exited", "cancelled"})
    /\ stop_pc' = "await_privacy"
    /\ UNCHANGED <<running, loop_pc, loop_cats, loop_items, loop_todo, cancel_pending,
                   seen, committed>>
    /\ UNCHANGED <<loop_failed, ploop_pc, mainVars>>
    /\ UNCHANGED <<catalogVars, nonTaskVars>>

\* BackgroundTasks.stop: the privacy task has ended; cancel the catalog
\* task, await it.
stop_cancel_catalog ==
    /\ running = "none"
    /\ stop_pc = "await_privacy"
    /\ ploop_pc \in {"exited", "cancelled"}
    /\ cancel_pending' = (loop_pc \notin {"exited", "cancelled"})
    /\ stop_pc' = "await_catalog"
    /\ UNCHANGED <<running, is_running, loop_pc, loop_cats, loop_items, loop_todo,
                   seen, committed>>
    /\ UNCHANGED <<loop_failed, ploopVars, mainVars>>
    /\ UNCHANGED <<catalogVars, nonTaskVars>>

\* BackgroundTasks.stop: the catalog task has ended, stop returns.
stop_return ==
    /\ running = "none"
    /\ stop_pc = "await_catalog"
    /\ StopMayReturn(ploop_pc, loop_pc)
    /\ stop_pc' = "done"
    /\ main_pc' = "closed"
    /\ UNCHANGED <<running, is_running, loop_pc, loop_cats, loop_items, loop_todo,
                   cancel_pending, seen, committed>>
    /\ UNCHANGED <<loop_failed, ploopVars, attempt, startup_result>>
    /\ UNCHANGED <<catalogVars, nonTaskVars>>

\* A handler, dispatched by the polling, reads the catalog cache (get_categories, get_items_by_category,
\* get_item answered from the cache).
reader_observe ==
    /\ running = "none"
    /\ main_pc = "polling"
    /\ seen' = IF ~CatalogWhole THEN "partial"
               ELSE IF c_initialized THEN "after" ELSE "before"
    /\ UNCHANGED <<running, is_running, loop_pc, loop_cats, loop_items, loop_todo,
                   cancel_pending, stop_pc, committed>>
    /\ UNCHANGED <<loop_failed, ploopVars, mainVars>>
    /\ UNCHANGED <<catalogVars, nonTaskVars>>

\* run.main: one pass of the startup retry loop. Nothing else runs yet, so
\* the pass is one step. ensure_google_sheets_setup returns or raises;
\* sync_privacy_cache fails on get_all_users and logs it; sync_catalog_cache
\* replaces the catalog, or fails and logs it. Only a raise of the setup
\* reaches the except clause of the retry loop.
main_attempt ==
    /\ main_pc = "setup"
    /\ running = "none"
    /\ \/ /\ startup_result' = "raised"
          /\ main_pc' = IF attempt < max_retries - 1 THEN "retry_sleep"
                        ELSE AfterLastAttempt
          /\ UNCHANGED <<catalogVars, committed, privOp, labels_at_fetch>>
       \/ /\ startup_result' = "sync_failed"
          /\ main_pc' = "start_bg"
          /\ privOp' = [op |-> "sync_privacy_cache", user |-> 0,
                        users |-> SheetAccepted(sheet_users), removed |-> {}]
          /\ UNCHANGED <<catalogVars, committed, labels_at_fetch>>
       \/ /\ startup_result' = "ok"
          /\ main_pc' = "start_bg"
          /\ privOp' = [op |-> "sync_privacy_cache", user |-> 0,
                        users |-> SheetAccepted(sheet_users), removed |-> {}]
          /\ LET cats == GetAllCategoriesFromGsheets(sheet_items)
                 items == GetAllItemsFromGsheets(sheet_items)
             IN /\ CatalogReplace(cats, GroupByCategory(<< >>, items))
                /\ committed' = [cats |-> cats, items |-> items, init |-> TRUE]
          /\ labels_at_fetch' = RowLabels(sheet_items)
          /\ catOp' = [op |-> "initialize", repeated |-> FALSE]
    /\ UNCHANGED <<running, is_running, loop_pc, loop_cats, loop_items, loop_todo,
                   cancel_pending, stop_pc, seen, loop_failed, ploopVars, attempt>>
    /\ UNCHANGED <<accepted_users, p_initialized, p_last_update, ever_added>>
    /\ UNCHANGED <<cartVars, consentVars, sheet_items, edits, readVars, handlerVars, now>>

\* run.main: await asyncio.sleep(retry_delay) is over, next pass of the
\* retry loop.
main_retry ==
    /\ main_pc = "retry_sleep"
    /\ running = "none"
    /\ attempt' = attempt + 1
    /\ main_pc' = "setup"
    /\ UNCHANGED <<running, is_running, loop_pc, loop_cats, loop_items, loop_todo,
                   cancel_pending, stop_pc, seen, committed, loop_failed, ploopVars,
                   startup_result>>
    /\ UNCHANGED <<catalogVars, nonTaskVars>>

\* run.main: dp.start_polling returns or raises; the finally clause calls
\* background_tasks.stop().
main_polling_ends ==
    /\ main_pc = "polling"
    /\ running = "none"
    /\ main_pc' = "stopping"
    /\ UNCHANGED <<running, is_running, loop_pc, loop_cats, loop_items, loop_todo,
                   cancel_pending, stop_pc, seen, committed, loop_failed, ploopVars,
                   attempt, startup_result>>
    /\ UNCHANGED <<catalogVars, nonTaskVars>>

\* The privacy task may take its next step.
PLoopMayRun ==
    \/ running = "privacy_loop"
    \/ /\ running = "none"
       /\ ~p_cancel_pending
       /\ ploop_pc \in {"created", "sleep"}

\* _sync_privacy_periodically: the while test.
ploop_head ==
    /\ PLoopMayRun
    /\ ploop_pc \in {"created", "sleep"}
    /\ ploop_pc' = IF is_running THEN "sync" ELSE "exited"
    /\ running' = IF is_running THEN "privacy_loop" ELSE "none"
    /\ UNCHANGED <<is_running, loop_pc, loop_cats, loop_items, loop_todo,
                   cancel_pending, stop_pc, seen, committed, loop_failed,
                   p_cancel_pending, mainVars>>
    /\ UNCHANGED <<catalogVars, nonTaskVars>>

\* _sync_privacy_periodically: await sync_privacy_cache(), which fails on
\* get_all_users without having awaited anything and logs it; then the loop
\* reaches its sleep.
ploop_sync ==
    /\ PLoopMayRun
    /\ ploop_pc = "sync"
    /\ privOp' = [op |-> "sync_privacy_cache", user |-> 0,
                  users |-> SheetAccepted(sheet_users), removed |-> {}]
    /\ ploop_pc' = LoopAfterFailure
    /\ running' = "none"
    /\ UNCHANGED <<is_running, loop_pc, loop_cats, loop_items, loop_todo,
                   cancel_pending, stop_pc, seen, committed, loop_failed,
                   p_cancel_pending, mainVars>>
    /\ UNCHANGED <<accepted_users, p_initialized, p_last_update, ever_added>>
    /\ UNCHANGED <<cartVars, catalogVars, consentVars, sheetVars, readVars, handlerVars, now>>

\* CancelledError is raised in the privacy task: its sleep catches it and
\* breaks out of the loop; a task that never ran is cancelled as it is.
ploop_cancelled ==
    /\ running = "none"
    /\ p_cancel_pending
    /\ ploop_pc \in {"created", "sleep"}
    /\ ploop_pc' = IF ploop_pc = "sleep" THEN "exited" ELSE "cancelled"
    /\ p_cancel_pending' = FALSE
    /\ UNCHANGED <<running, is_running, loop_pc, loop_cats, loop_items, loop_todo,
                   cancel_pending, stop_pc, seen, committed, loop_failed, mainVars>>
    /\ UNCHANGED <<catalogVars, nonTaskVars>>

\* sync_catalog_cache: catalog_cache.initialize / update as one step (it has
\* no await inside), then back to the sleep of the loop.
loop_replace ==
    /\ LoopMayRun
    /\ loop_pc = "set_categories"
    /\ CatalogReplace(loop_cats, GroupByCategory(<< >>, loop_items))
    /\ catOp' = [op |-> IF c_initialized THEN "update" ELSE "initialize",
                 repeated |-> FALSE]
    /\ committed' = [cats |-> loop_cats, items |-> loop_items, init |-> TRUE]
    /\ loop_cats' = << >>
    /\ loop_items' = << >>
    /\ loop_pc' = "sleep"
    /\ loop_failed' = FALSE
    /\ running' = Release(loop_pc')
    /\ UNCHANGED <<is_running, loop_todo, cancel_pending, stop_pc, seen>>
    /\ UNCHANGED <<ploopVars, mainVars>>
    /\ UNCHANGED nonTaskVars

TaskInit ==
    /\ running = "none"
    /\ is_running = FALSE
    /\ loop_pc = "none"
    /\ loop_cats = << >>
    /\ loop_items = << >>
    /\ loop_todo = << >>
    /\ cancel_pending = FALSE
    /\ stop_pc = "idle"
    /\ seen = "nothing"
    /\ committed = [cats |-> << >>, items |-> << >>, init |-> FALSE]
    /\ loop_failed = FALSE
    /\ ploop_pc = "none"
    /\ p_cancel_pending = FALSE

\* run.main at the head of its startup retry loop.
MainInit ==
    /\ main_pc = "setup"
    /\ attempt = 0
    /\ startup_result = "none"

\* run.main past the retry loop: the first pass ended with the catalog sync
\* failed and logged, so both caches are as constructed.
MainAfterStartup ==
    /\ main_pc = "start_bg"
    /\ attempt = 0
    /\ startup_result = "sync_failed"

TaskNext ==
    \/ bg_start
    \/ main_polling_ends
    \/ ploop_head
    \/ ploop_sync
    \/ ploop_cancelled
    \/ loop_head
    \/ loop_fetch_categories
    \/ loop_fetch_items
    \/ loop_set_categories
    \/ loop_set_by_category
    \/ loop_reset_by_id
    \/ loop_index
    \/ loop_set_initialized
    \/ loop_set_last_update
    \/ loop_cancelled
    \/ stop_begin
    \/ stop_cancel_catalog
    \/ stop_return
    \/ reader_observe

\* ------------------------------------------------------- specifications

vars == <<carts, cartOp, accepted_users, p_initialized, p_last_update, ever_added,
          privOp, categories, items_by_category, items_by_id, c_initialized,
          c_last_update, catOp, sheet_users, acc_pc, acc_begun, sync_passes,
          overlapped, running, is_running, loop_pc, loop_cats, loop_items, loop_todo,
          cancel_pending, stop_pc, seen, committed, loop_failed, ploop_pc,
          p_cancel_pending, main_pc, attempt, startup_result, sheet_items, edits,
          labels_at_fetch, access, parsed, detail, shelf, incr, adminOp, gate, order, race, walk, sweeps, bt, now>>

Init ==
    /\ CartInit
    /\ PrivacyInit
    /\ CatalogInit
    /\ ConsentInit
    /\ TaskInit
    /\ ReadInit
    /\ HandlerInit
    /\ MainInit
    /\ SheetInit
    /\ sheet_users = [u \in Users |-> "absent"]
    /\ now = 0

\* The program when run.main has left its startup retry loop.
InitAfterStartup ==
    /\ CartInit
    /\ PrivacyInit
    /\ CatalogInit
    /\ ConsentInit
    /\ TaskInit
    /\ ReadInit
    /\ HandlerInit
    /\ MainAfterStartup
    /\ sheet_items \in PlainSheets
    /\ edits = 0
    /\ labels_at_fetch = {}
    /\ sheet_users = [u \in Users |-> "absent"]
    /\ now = 0

\* The users sheet outlives the process: any rows may be there at start.
InitAnySheet ==
    /\ CartInit
    /\ PrivacyInit
    /\ CatalogInit
    /\ ConsentInit
    /\ TaskInit
    /\ ReadInit
    /\ HandlerInit
    /\ MainInit
    /\ SheetInit
    /\ sheet_users \in [Users -> {"absent", "no", "yes"}]
    /\ now = 0

\* The dicts a cart can be: some items, each with a positive quantity.
CartDicts == UNION {[T -> 1..MaxQty] : T \in SUBSET ItemIds}

\* The states of CartCache._carts: the users touched so far, each with a cart.
CartStates == UNION {[S -> CartDicts] : S \in SUBSET CartUsers}

\* Both caches in any state that calls of their methods leave them in: the
\* cart store after any cart calls, the catalog cache as constructed or
\* after a full replace.
InitReads ==
    /\ carts \in CartStates
    /\ cartOp = NoCartOp
    /\ PrivacyInit
    /\ \/ CatalogInit
       \/ \E cats \in CategoryLists, items \in FetchedItemLists :
            LET ibc == GroupByCategory(<< >>, items) IN
            /\ categories = cats
            /\ items_by_category = ibc
            /\ items_by_id = ItemsById(ibc)
            /\ c_initialized = TRUE
            /\ c_last_update = 0
            /\ catOp = [op |-> "initialize", repeated |-> FALSE]
    /\ ConsentInit
    /\ TaskInit
    /\ ReadInit
    /\ HandlerInit
    /\ MainInit
    /\ SheetInit
    /\ sheet_users = [u \in Users |-> "absent"]
    /\ now = 0

\* The read methods of the cart store and of the catalog cache.
ReadsNext ==
    \/ get_cart
    \/ get_item_quantity
    \/ catalog_get_categories
    \/ catalog_get_items_by_category
    \/ catalog_get_item

\* The read methods called on the caches in any state.
SpecReads == InitReads /\ [][ReadsNext]_vars

\* The cart store driven by arbitrary calls of its methods.
SpecCart == Init /\ [][CartNext]_vars

\* The consent cache driven by arbitrary calls of its methods.
SpecPrivacy == Init /\ [][PrivacyNext]_vars

\* The catalog cache driven by calls of its methods.
SpecCatalog == Init /\ [][CatalogNext]_vars

\* Write-through accepts and consent reconciliation passes, interleaved at
\* their awaits.
SpecConsent == InitAnySheet /\ [][ConsentNext]_vars

\* run.main from the start of the background tasks to shutdown, with both
\* tasks, a reading handler and stop() under the event loop, the catalog
\* replace followed statement by statement.
SpecTasks == InitAfterStartup /\ [][TaskNext]_vars

\* The same with the catalog replace as one step.
LifecycleNext ==
    \/ main_attempt
    \/ main_retry
    \/ bg_start
    \/ main_polling_ends
    \/ ploop_head
    \/ ploop_sync
    \/ ploop_cancelled
    \/ loop_head
    \/ loop_fetch_categories
    \/ loop_fetch_items
    \/ loop_replace
    \/ loop_cancelled
    \/ stop_begin
    \/ stop_cancel_catalog
    \/ stop_return
    \/ reader_observe

\* The catalog task making pass after pass while the items sheet is edited.
SyncNext ==
    \/ bg_start
    \/ loop_head
    \/ loop_fetch_categories
    \/ loop_fetch_items
    \/ loop_replace
    \/ sheet_edit

SpecSync == InitAfterStartup /\ [][SyncNext]_vars

\* The handlers' reads while time passes; the startup pass has failed, so
\* both caches start as constructed.
InitAccess ==
    /\ CartInit
    /\ PrivacyInit
    /\ CatalogInit
    /\ ConsentInit
    /\ TaskInit
    /\ ReadInit
    /\ HandlerInit
    /\ MainAfterStartup
    /\ sheet_items \in ItemSheets
    /\ edits = 0
    /\ labels_at_fetch = {}
    /\ sheet_users = [u \in Users |-> "absent"]
    /\ now = 0

AccessNext ==
    \/ access_get_user_privacy_status
    \/ access_get_categories
    \/ access_get_items_by_category
    \/ access_get_item
    \/ clock_advance

SpecAccess == InitAccess /\ [][AccessNext]_vars

\* One fetch of the item rows on any batch of rows.
InitParse ==
    /\ CartInit
    /\ PrivacyInit
    /\ CatalogInit
    /\ ConsentInit
    /\ TaskInit
    /\ ReadInit
    /\ HandlerInit
    /\ MainInit
    /\ sheet_items \in RowBatches
    /\ edits = 0
    /\ labels_at_fetch = {}
    /\ sheet_users = [u \in Users |-> "absent"]
    /\ now = 0

ParseNext ==
    \/ get_all_items_from_gsheets

SpecParse == InitParse /\ [][ParseNext]_vars

\* _parse_item_row on any row, then the keyboard of the item.
InitDetail ==
    /\ CartInit
    /\ PrivacyInit
    /\ CatalogInit
    /\ ConsentInit
    /\ TaskInit
    /\ ReadInit
    /\ MainInit
    /\ SheetInit
    /\ detail \in {[NoDetail EXCEPT !.row = r] : r \in DetailRows}
    /\ shelf = [i \in ItemIds |-> [quantity |-> 0, status |-> "missing"]]
    /\ incr = NoIncr
    /\ adminOp = NoAdminOp
    /\ SessionInit
    /\ sheet_users = [u \in Users |-> "absent"]
    /\ now = 0

DetailNext ==
    \/ parse_item_row
    \/ get_item_cart_keyboard

SpecDetail == InitDetail /\ [][DetailNext]_vars

\* Cart increases while the stock of the items changes; at first every item
\* is on sale with the largest stock.
InitStock ==
    /\ CartInit
    /\ PrivacyInit
    /\ CatalogInit
    /\ ConsentInit
    /\ TaskInit
    /\ ReadInit
    /\ MainAfterStartup
    /\ SheetInit
    /\ detail = NoDetail
    /\ shelf = [i \in ItemIds |-> [quantity |-> MaxStock, status |-> ITEM_STATUS_AVAILABLE]]
    /\ incr = NoIncr
    /\ adminOp = NoAdminOp
    /\ SessionInit
    /\ sheet_users = [u \in Users |-> "absent"]
    /\ now = 0

StockNext ==
    \/ cart_increase
    \/ shelf_change

SpecStock == InitStock /\ [][StockNext]_vars

\* "admin:" callbacks while the catalog task makes its passes.
AdminNext ==
    \/ bg_start
    \/ loop_head
    \/ loop_fetch_categories
    \/ loop_fetch_items
    \/ loop_replace
    \/ process_admin_callback

SpecAdmin == InitAfterStartup /\ [][AdminNext]_vars

\* Both caches as constructed, the items sheet with one row at most.
InitFresh ==
    /\ CartInit
    /\ PrivacyInit
    /\ CatalogInit
    /\ ConsentInit
    /\ TaskInit
    /\ ReadInit
    /\ HandlerInit
    /\ MainAfterStartup
    /\ sheet_items \in {sh \in PlainSheets : Len(sh) <= 1}
    /\ edits = 0
    /\ labels_at_fetch = {}
    /\ sheet_users = [u \in Users |-> "absent"]
    /\ now = 0

\* Replacements and passes of both caches while time passes.
FreshNext ==
    \/ privacy_initialize
    \/ sync_privacy_cache
    \/ sync_catalog_cache
    \/ clock_advance

SpecFresh == InitFresh /\ [][FreshNext]_vars

\* The handlers' reads on caches that a pass or a call of initialize has
\* filled; the users sheet says accepted for a user the cache has not got.
InitCachedReads ==
    /\ CartInit
    /\ \/ PrivacyInit
       \/ /\ accepted_users = {1, 2}
          /\ p_initialized = TRUE
          /\ p_last_update = 0
          /\ ever_added = {1, 2}
          /\ privOp = [op |-> "initialize", user |-> 0, users |-> {1, 2}, removed |-> {}]
    /\ CatalogInit
    /\ ConsentInit
    /\ TaskInit
    /\ ReadInit
    /\ HandlerInit
    /\ MainAfterStartup
    /\ sheet_items \in {sh \in PlainSheets : Len(sh) <= 1}
    /\ edits = 0
    /\ labels_at_fetch = {}
    /\ sheet_users = [u \in Users |-> IF u = 3 THEN "yes" ELSE "absent"]
    /\ now = 0

CachedReadsNext ==
    \/ sync_catalog_cache
    \/ access_get_user_privacy_status
    \/ access_get_categories
    \/ access_get_items_by_category
    \/ access_get_item
    \/ clock_advance

SpecCachedReads == InitCachedReads /\ [][CachedReadsNext]_vars

\* Gated handlers at startup and later: the consent cache is as constructed
\* or holds user 1, the users sheet says accepted for user 1 or for user 2,
\* and every item is on sale.
InitGate ==
    /\ CartInit
    /\ \/ PrivacyInit
       \/ /\ accepted_users = {1}
          /\ p_initialized = TRUE
          /\ p_last_update = 0
          /\ ever_added = {1}
          /\ privOp = [op |-> "initialize", user |-> 0, users |-> {1}, removed |-> {}]
    /\ CatalogInit
    /\ ConsentInit
    /\ TaskInit
    /\ ReadInit
    /\ MainAfterStartup
    /\ SheetInit
    /\ detail = NoDetail
    /\ shelf = [i \in ItemIds |-> [quantity |-> MaxStock, status |-> ITEM_STATUS_AVAILABLE]]
    /\ incr = NoIncr
    /\ adminOp = NoAdminOp
    /\ SessionInit
    /\ \E w \in CartUsers :
          sheet_users = [u \in Users |-> IF u = w THEN "yes" ELSE IF u = 1 THEN "no" ELSE "absent"]
    /\ now = 0

GateNext ==
    \/ gated_handler
    \/ clock_advance

SpecGate == InitGate /\ [][GateNext]_vars

\* Cart calls and checkout starts.
OrderNext ==
    \/ add_to_cart
    \/ remove_from_cart
    \/ clear_cart
    \/ start_order

SpecOrder == Init /\ [][OrderNext]_vars

\* Increase and decrease callbacks of one user for one item in flight at
\* once, while the stock of the items changes; the cart starts empty and
\* every item is on sale with the largest stock.
RaceNext ==
    \/ job_start
    \/ job_query
    \/ job_read
    \/ job_write
    \/ shelf_change

SpecRace == InitStock /\ [][RaceNext]_vars

\* Cart views while cart actions of the same and of other users are handled
\* between the awaits of the view.
WalkNext ==
    \/ add_to_cart
    \/ remove_from_cart
    \/ clear_cart
    \/ walk_start
    \/ walk_next

SpecWalk == Init /\ [][WalkNext]_vars

\* Two reconciliation passes in flight while the items sheet is edited.
InitOverlap ==
    /\ CartInit
    /\ PrivacyInit
    /\ CatalogInit
    /\ ConsentInit
    /\ TaskInit
    /\ ReadInit
    /\ HandlerInit
    /\ MainAfterStartup
    /\ sheet_items \in {sh \in PlainSheets : Len(sh) = 1 /\ sh[1].category = "A"}
    /\ edits = 0
    /\ labels_at_fetch = {}
    /\ sheet_users = [u \in Users |-> "absent"]
    /\ now = 0

OverlapNext ==
    \/ sweep_begin
    \/ sweep_fetch_categories
    \/ sweep_fetch_items
    \/ sweep_install
    \/ sheet_edit

SpecOverlap == InitOverlap /\ [][OverlapNext]_vars

\* start() and stop() called one after another, each awaited to its end as
\* run.main awaits them, in any order.
CallsNext ==
    \/ bt_start
    \/ bt_stop_begin
    \/ bt_task_step
    \/ bt_task_ends
    \/ bt_stop_cancel_catalog
    \/ bt_stop_return

SpecCalls == Init /\ [][CallsNext]_vars

\* Reconciliation passes over sheets whose status cells hold any text, while
\* the status cells are edited.
InitStatuses ==
    /\ CartInit
    /\ PrivacyInit
    /\ CatalogInit
    /\ ConsentInit
    /\ TaskInit
    /\ ReadInit
    /\ HandlerInit
    /\ MainAfterStartup
    /\ sheet_items \in StatusSheets
    /\ edits = 0
    /\ labels_at_fetch = {}
    /\ sheet_users = [u \in Users |-> "absent"]
    /\ now = 0

StatusesNext ==
    \/ sync_catalog_cache
    \/ sheet_relabel

SpecStatuses == InitStatuses /\ [][StatusesNext]_vars

\* The steps of run.main up to the start of the polling.
MainStep == main_attempt \/ main_retry \/ bg_start

\* The steps of the privacy task.
PrivacyTaskStep == ploop_head \/ ploop_sync \/ ploop_cancelled

\* The steps of the catalog task.
CatalogTaskStep ==
    loop_head \/ loop_fetch_categories \/ loop_fetch_items \/ loop_replace \/ loop_cancelled

\* The steps of BackgroundTasks.stop.
StopStep == stop_begin \/ stop_cancel_catalog \/ stop_return

\* The event loop runs every task that is ready, and every awaited sleep and
\* query ends; how long the polling lasts and whether a handler runs is left
\* open.
LifecycleFairness ==
    /\ WF_vars(MainStep)
    /\ SF_vars(PrivacyTaskStep)
    /\ SF_vars(CatalogTaskStep)
    /\ SF_vars(StopStep)

\* run.main with the items sheet holding any rows that parse.
InitLifecycle ==
    /\ CartInit
    /\ PrivacyInit
    /\ CatalogInit
    /\ ConsentInit
    /\ TaskInit
    /\ ReadInit
    /\ HandlerInit
    /\ MainInit
    /\ sheet_items \in PlainSheets
    /\ edits = 0
    /\ labels_at_fetch = {}
    /\ sheet_users = [u \in Users |-> "absent"]
    /\ now = 0

\* run.main from startup to shutdown with both background tasks, a reading
\* handler and stop() under the event loop.
SpecLifecycle == InitLifecycle /\ [][LifecycleNext]_vars /\ LifecycleFairness

\* -------------------------------------------------------------- claims

\* C1: in every catalog cache state reachable by initialize, update and
\* update_partial calls, every item of items_by_id appears in
\* items_by_category[item.category_name], and every item of a category bucket
\* is the item stored in items_by_id under its id.
IndexAgreement ==
    /\ \A id \in DOMAIN items_by_id :
          LET item == items_by_id[id] IN
          /\ item.category_name \in DOMAIN items_by_category
          /\ \E k \in 1..Len(items_by_category[item.category_name]) :
                items_by_category[item.category_name][k] = item
    /\ \A c \in DOMAIN items_by_category :
          \A k \in 1..Len(items_by_category[c]) :
              LET item == items_by_category[c][k] IN
              /\ item.id \in DOMAIN items_by_id
              /\ items_by_id[item.id] = item

\* C7: calling catalog update or initialize twice in a row with identical
\* input leaves get_categories(), get_items_by_category(c) for every c and
\* get_item(id) for every id the same after the second call as after the
\* first.
FullReplaceIdempotent ==
    [][catOp'.repeated => CatalogReads' = CatalogReads]_vars

\* A full replace with two items in one bucket has just been repeated.
FullReplaceIdempotentWitness ==
    /\ catOp.repeated
    /\ categories # << >>
    /\ \E c \in DOMAIN items_by_category : Len(items_by_category[c]) = 2


\* C8: after any sequence of add_to_cart, remove_from_cart and clear_cart
\* calls with arbitrary quantities (zero and negative included),
\* get_item_quantity(u, i) is never negative and every stored cart entry
\* has a quantity greater than zero.
CartNonNegative ==
    /\ \A u \in CartUsers, i \in ItemIds : GetItemQuantity(carts, u, i) >= 0
    /\ \A u \in DOMAIN carts : \A i \in DOMAIN carts[u] : carts[u][i] > 0

\* A non-positive quantity was just passed to add_to_cart for an item that
\* another call had stored before, and another entry is still held.
CartNonNegativeWitness ==
    /\ cartOp.op = "add_to_cart"
    /\ cartOp.qty < 0
    /\ \E u \in DOMAIN carts : \E i \in DOMAIN carts[u] : carts[u][i] = MaxQty

\* C9: for every cart state, user u, item i and quantity q <= 0,
\* add_to_cart(u, i, q) leaves exactly the cart state remove_from_cart(u, i)
\* would leave: the entry (u, i) is absent and no other entry changes.
AddNonPositiveIsRemove ==
    [][(cartOp'.op = "add_to_cart" /\ cartOp'.qty <= 0) =>
          /\ carts' = RemoveFromCart(carts, cartOp'.user, cartOp'.item)
          /\ cartOp'.user \in DOMAIN carts'
          /\ cartOp'.item \notin DOMAIN carts'[cartOp'.user]
          /\ \A u \in CartUsers, i \in ItemIds :
                (u # cartOp'.user \/ i # cartOp'.item) =>
                    GetItemQuantity(carts', u, i) = GetItemQuantity(carts, u, i)
      ]_vars

\* add_to_cart with quantity zero has just removed an entry while the same
\* user keeps another item.
AddNonPositiveWitness ==
    /\ cartOp.op = "add_to_cart"
    /\ cartOp.qty = 0
    /\ cartOp.user \in DOMAIN carts
    /\ cartOp.item \notin DOMAIN carts[cartOp.user]
    /\ DOMAIN carts[cartOp.user] # {}

\* C10: add_to_cart(u, i, q) with q > 0 sets the absolute quantity:
\* afterwards get_item_quantity(u, i) = q whatever was held before.
AddSetsAbsolute ==
    [][(cartOp'.op = "add_to_cart" /\ cartOp'.qty > 0) =>
          GetItemQuantity(carts', cartOp'.user, cartOp'.item) = cartOp'.qty
      ]_vars

\* A positive add_to_cart has overwritten a larger quantity: the entry now
\* holds 1 where a sum would hold more.
AddSetsAbsoluteWitness ==
    /\ cartOp.op = "add_to_cart"
    /\ cartOp.qty = 1
    /\ GetItemQuantity(carts, cartOp.user, cartOp.item) = 1
    /\ \E i \in ItemIds : i # cartOp.item /\ GetItemQuantity(carts, cartOp.user, i) = MaxQty

\* C2: for any cached accepted set C and any true set T, update_partial(T - C,
\* C - T) applied to a cache holding C leaves the cache holding exactly T:
\* is_accepted(u) is then true exactly for the users of T.
DiffCorrect ==
    [][\A T \in SUBSET Users :
          (/\ privOp'.op = "update_partial"
           /\ privOp'.users = T \ accepted_users
           /\ privOp'.removed = accepted_users \ T)
          => /\ accepted_users' = T
             /\ \A u \in Users : IsAccepted(u)' <=> u \in T
      ]_vars

\* A diff that both added and removed users has just been applied.
DiffCorrectWitness ==
    /\ privOp.op = "update_partial"
    /\ privOp.users # {}
    /\ privOp.removed # {}
    /\ privOp.users \subseteq accepted_users
    /\ privOp.users # accepted_users
    /\ privOp.removed \cap accepted_users = {}
    /\ privOp.removed \subseteq ever_added

\* C3: a consent reconciliation pass that runs with no concurrent write leaves
\* is_accepted(u) true exactly for the users of the accepted set it fetched,
\* and leaves the cache initialized.
SyncLeavesFetchedSet ==
    privOp.op = "sync_privacy_cache" =>
        /\ p_initialized
        /\ \A u \in Users : IsAccepted(u) <=> u \in privOp.users

NoPartialObservation ==
    /\ seen # "partial"
    /\ running = "none" => CatalogWhole
    /\ loop_pc \in {"cancelled", "exited"} => CatalogWhole

\* A handler has read the cache after a full replace that indexed two items,
\* and the loop was then cancelled inside a fetch of its next pass.
NoPartialObservationWitness ==
    /\ seen = "after"
    /\ loop_pc = "cancelled"
    /\ stop_pc = "done"
    /\ Cardinality(DOMAIN items_by_id) = 2
    /\ Len(categories) = 2

\* C6: is_accepted(u) is false for every user that was never added to the
\* cache, when the cache is uninitialized and when it is initialized without
\* a record for u.
FailClosed ==
    \A u \in Users : u \notin ever_added => ~IsAccepted(u)

\* The cache is initialized, holds some users, and knows nothing of another.
FailClosedWitness ==
    /\ p_initialized
    /\ accepted_users # {}
    /\ \E u \in Users : u \notin ever_added /\ ~IsAccepted(u)

\* C11: cache reads never fail on a miss: get_cart for a user with no cart
\* returns an empty mapping, get_item_quantity for an absent entry returns 0,
\* get_item for an unknown id returns None and get_items_by_category for an
\* unknown category returns an empty list.
ReadsDefaultOnMiss ==
    /\ \A u \in CartUsers : u \notin DOMAIN carts => GetCart(carts, u) = << >>
    /\ \A u \in CartUsers, i \in ItemIds :
          (u \notin DOMAIN carts \/ i \notin DOMAIN carts[u])
              => GetItemQuantity(carts, u, i) = 0
    /\ \A i \in ItemIds : i \notin DOMAIN items_by_id => CatalogGetItem(i) = "None"
    /\ \A c \in CategoryNames \cup {""} :
          c \notin DOMAIN items_by_category => CatalogGetItemsByCategory(c) = << >>

\* get_item_quantity has just been called for a user without a cart (the
\* call left an empty cart behind) while another user holds items, and the
\* initialized catalog knows one item id and one category but not the others.
ReadsDefaultOnMissWitness ==
    /\ cartOp.op = "get_item_quantity"
    /\ carts[cartOp.user] = << >>
    /\ \E v \in DOMAIN carts : carts[v] # << >>
    /\ catOp.op = "get_item"
    /\ c_initialized
    /\ Cardinality(DOMAIN items_by_id) = 1
    /\ Cardinality(DOMAIN items_by_category) = 1

\* C12: a reconciliation attempt that fails does not stop its loop: after a
\* failed consent pass the privacy task makes another attempt, and after a
\* failed catalog pass the catalog task makes another attempt, unless stop()
\* has been called; so each loop keeps making attempts while no stop signal
\* is given.
LoopsKeepAttempting ==
    /\ (privOp.op = "sync_privacy_cache") ~> (ploop_pc = "sync" \/ stop_pc # "idle")
    /\ loop_failed ~> (loop_pc = "fetch_categories" \/ stop_pc # "idle")

\* The catalog task is in the fetch of a new pass after a pass that failed,
\* the privacy task is in a new pass after its failed pass, and stop() has
\* not been called.
LoopsKeepAttemptingWitness ==
    /\ loop_failed
    /\ loop_pc = "fetch_categories"
    /\ privOp.op = "sync_privacy_cache"
    /\ ploop_pc = "sync"
    /\ startup_result = "ok"
    /\ stop_pc = "idle"

\* C13: if the startup reconciliation pass fails, startup runs it again, up to
\* max_retries attempts: the retry loop is left after a failed pass only when
\* all attempts have been made.
StartupRetriesFailedPass ==
    (main_pc \notin {"setup", "retry_sleep"} /\ startup_result # "ok")
        => attempt = max_retries - 1

\* C14: startup ends after max_retries attempts at most, and whether or not
\* an attempt succeeded run.main starts the background tasks and the polling.
StartupTerminates ==
    /\ [](attempt < max_retries)
    /\ <>(main_pc = "polling" /\ is_running)

\* The polling runs after three attempts that all raised, with the catalog
\* cache not initialized.
StartupTerminatesWitness ==
    /\ main_pc = "polling"
    /\ is_running
    /\ attempt = max_retries - 1
    /\ startup_result = "raised"
    /\ ~c_initialized

\* C15: no handler has run and no background task exists while run.main is
\* in its startup retry loop.
StartupBeforeServing ==
    (ploop_pc # "none" \/ loop_pc # "none" \/ is_running \/ seen # "nothing")
        => (main_pc \notin {"setup", "retry_sleep"} /\ startup_result # "none")

\* A handler has read the cache and the catalog task has made a pass, after a
\* startup that needed a second attempt.
StartupBeforeServingWitness ==
    /\ seen # "nothing"
    /\ loop_pc = "sleep"
    /\ ploop_pc = "sleep"
    /\ attempt = 1

\* C16: once stop() is called it returns, and then both tasks have ended and
\* take no further step; a task that is cancelled in its sleep ends without
\* another pass.
StopEndsLoops ==
    /\ (stop_pc # "idle") ~> (stop_pc = "done")
    /\ [](stop_pc = "done" => /\ ploop_pc \in {"exited", "cancelled"}
                              /\ loop_pc \in {"exited", "cancelled"})
    /\ [][stop_pc = "done" => (ploop_pc' = ploop_pc /\ loop_pc' = loop_pc)]_vars
    /\ [][(cancel_pending /\ loop_pc = "sleep") => loop_pc' \in {"sleep", "exited"}]_vars
    /\ [][(p_cancel_pending /\ ploop_pc = "sleep") => ploop_pc' \in {"sleep", "exited"}]_vars

\* stop() has returned; the catalog task was cancelled inside a fetch and the
\* privacy task in its sleep.
StopEndsLoopsWitness ==
    /\ stop_pc = "done"
    /\ loop_pc = "cancelled"
    /\ ploop_pc = "exited"
    /\ c_initialized

\* C17: at every synchronization checkpoint, that is right after a consent
\* reconciliation pass, the cached accepted set is a subset of the accepted
\* rows the users sheet held during the pass.
ConsentSubsetAtCheckpoint ==
    privOp.op = "sync_privacy_cache" => accepted_users \subseteq privOp.users

\* C18: after every catalog reconciliation each category of the cached
\* category list is the category label of at least one row the items sheet
\* held when that reconciliation fetched the categories.
CategoriesHaveRows ==
    [][(loop_pc = "set_categories" /\ loop_pc' = "sleep")
        => \A k \in 1..Len(categories') : categories'[k] \in labels_at_fetch']_vars

\* A pass has replaced the catalog with two categories, one of them written
\* with a trailing blank in the sheet, and the sheet has since lost a row.
CategoriesHaveRowsWitness ==
    /\ catOp.op = "update"
    /\ loop_pc = "sleep"
    /\ ~loop_failed
    /\ categories = <<"A", "B">>
    /\ labels_at_fetch # RowLabels(sheet_items)
    /\ Len(sheet_items) = 1

\* C19: a read through the access layer (get_user_privacy_status,
\* get_categories, get_items_by_category, get_item) that goes to the backing
\* store because the cache is uninitialized or stale leaves the cache it
\* reads for initialized and fresh when it returns.
ReadThroughPopulates ==
    [][(access'.source = "store" /\ access'.returned /\ now' = now)
        => IF access'.op = "get_user_privacy_status"
           THEN p_initialized' /\ ~PrivacyNeedsUpdate'
           ELSE c_initialized' /\ ~CatalogNeedsUpdate']_vars

\* C20: row-level fault isolation. When the fetched batch of item rows holds
\* rows that cannot be parsed (an unparseable price), the fetch returns, and
\* what it returns is exactly the parsed items of all the other rows, in the
\* order of the rows: as many items as rows minus the bad ones (10 rows with
\* one bad row give 9 items).
RowFaultIsolation ==
    parsed.fetched =>
        LET good == SelectSeq(parsed.rows, LAMBDA row : row.price # "x") IN
        /\ Len(parsed.items) = Len(good)
        /\ \A k \in 1..Len(good) :
              parsed.items[k] = [id |-> good[k].id,
                                 category_name |-> Strip(good[k].category),
                                 status |-> ParseStatus(good[k].status)]

\* A batch of MaxRows rows whose middle row alone has an unparseable price
\* has been fetched: all rows but that one came back as items.
RowFaultIsolationWitness ==
    /\ parsed.fetched
    /\ Len(parsed.rows) = MaxRows
    /\ {k \in 1..Len(parsed.rows) : parsed.rows[k].price = "x"} = {2}
    /\ Len(parsed.items) = MaxRows - 1

\* C21: the order_steps of a MILLILITER item is the ascending list, without
\* repeats, of the positive numeric tokens of the order-step field; when the
\* field is empty, absent or has no valid token it is the default step
\* sequence 1, 2, 3, 5, 10, 15, 20, never an empty list.
OrderStepsOrDefault ==
    (detail.called /\ detail.item # << >> /\ detail.item[1].unit = ITEM_UNIT_ML) =>
        LET t == detail.row.steps.tokens
            valid == {v \in 1..10 : \E k \in 1..Len(t) : ToFloat(t[k]) = <<v>>}
        IN detail.item[1].order_steps =
               IF valid # {} THEN SortedList(valid) ELSE <<1, 2, 3, 5, 10, 15, 20>>

IncreaseWithinStock ==
    incr.outcome \in {"added", "refused"} =>
        /\ GetItemQuantity(carts, incr.user, incr.item) =
              incr.current + (IF AmountToAdd(incr.amount, incr.available - incr.current) > 0
                              THEN AmountToAdd(incr.amount, incr.available - incr.current)
                              ELSE 0)
        /\ GetItemQuantity(carts, incr.user, incr.item) <= incr.available

\* C24: the "admin:sync" callback of an admin runs a consent reconciliation
\* pass and a catalog reconciliation pass; a callback of anybody else runs
\* neither.
AdminForceSyncRuns ==
    /\ (adminOp.admin /\ adminOp.action = "sync")
          => (adminOp.privacy_pass /\ adminOp.catalog_pass)
    /\ (adminOp.action # "none" /\ ~adminOp.admin)
          => (~adminOp.privacy_pass /\ ~adminOp.catalog_pass)

\* C25: after a catalog reconciliation pass (initialize on an uninitialized
\* cache, full update otherwise) get_categories() is the fetched category
\* list, get_items_by_category(c) is the fetched items whose category_name
\* is c, in fetch order, and get_item(id) is the fetched item with that id,
\* None for an id that was not fetched; nothing of the previous contents
\* remains.
PassLeavesFetchedCatalog ==
    (committed.init /\ loop_pc = "sleep" /\ ~loop_failed) =>
        /\ c_initialized
        /\ CatalogGetCategories = committed.cats
        /\ \A c \in CategoryNames \cup {""} :
              CatalogGetItemsByCategory(c) =
                  SelectSeq(committed.items, LAMBDA item : item.category_name = c)
        /\ \A id \in ItemIds :
              LET hits == SelectSeq(committed.items, LAMBDA item : item.id = id) IN
              IF hits = << >> THEN id \notin DOMAIN items_by_id
              ELSE id \in DOMAIN items_by_id /\ items_by_id[id] = hits[Len(hits)]

\* C26: after catalog update_partial every id of removed_item_ids that is not
\* supplied again is absent from items_by_id and from every category bucket;
\* for every supplied item get_item(id) is the fresh version and the id
\* occurs exactly once over all buckets, in the bucket of the fresh version's
\* category_name, so that no stale version stays readable, also when the
\* category changed.
UpdatePartialPostcondition ==
    catOp.op = "update_partial" =>
        LET new == catOp.new_items
            supplied == {new[k].id : k \in 1..Len(new)}
            places(id) ==
                {pl \in UNION {{<<c, k>> : k \in 1..Len(items_by_category[c])} :
                                 c \in DOMAIN items_by_category} :
                    items_by_category[pl[1]][pl[2]].id = id}
        IN
        /\ \A id \in catOp.removed_item_ids \ supplied :
              id \notin DOMAIN items_by_id /\ places(id) = {}
        /\ \A k \in 1..Len(new) :
              (\A j \in (k + 1)..Len(new) : new[j].id # new[k].id) =>
                  /\ new[k].id \in DOMAIN items_by_id
                  /\ items_by_id[new[k].id] = new[k]
                  /\ Cardinality(places(new[k].id)) = 1
                  /\ \A pl \in places(new[k].id) :
                        /\ pl[1] = new[k].category_name
                        /\ items_by_category[pl[1]][pl[2]] = new[k]

\* C27: needs_update() of the consent cache and of the catalog cache is true
\* exactly when the cache was never initialized or more than 300 seconds have
\* passed since last_update; right after a successful initialize or update,
\* and right after a reconciliation pass has completed, it is false.
NeedsUpdateFalseAfterPass ==
    [][/\ PrivacyNeedsUpdate' <=> ((~p_initialized') \/ (now' - p_last_update') > 300)
       /\ CatalogNeedsUpdate' <=> ((~c_initialized') \/ (now' - c_last_update') > 300)
       /\ (privOp' # privOp /\ privOp'.op \in {"initialize", "sync_privacy_cache"})
             => ~PrivacyNeedsUpdate'
       /\ (catOp' # catOp /\ catOp'.op \in {"initialize", "update"})
             => ~CatalogNeedsUpdate']_vars

\* C28: a backing-store failure during a reconciliation pass leaves the cache
\* as it was before the pass. No step of a pass that is still fetching, the
\* step in which a fetch raises included (also the item fetch after the
\* category fetch has succeeded), changes the accepted set, the category
\* list, either item index, an initialized flag or a last_update.
FailedPassKeepsCache ==
    [][((loop_pc \in {"fetch_categories", "fetch_items"} /\ loop_pc' # "set_categories")
        \/ (ploop_pc = "sync" /\ ploop_pc' # "sync"))
       => UNCHANGED <<accepted_users, p_initialized, p_last_update, categories,
                      items_by_category, items_by_id, c_initialized, c_last_update>>]_vars

\* A pass has failed after an earlier pass had stored the catalog, a consent
\* pass has run as well, and the cache still holds what the earlier pass
\* stored.
FailedPassKeepsCacheWitness ==
    /\ loop_failed
    /\ loop_pc = "sleep"
    /\ c_initialized
    /\ committed.init
    /\ categories = committed.cats
    /\ labels_at_fetch # {}
    /\ privOp.op = "sync_privacy_cache"

\* C29: write-through order for consent. accept_privacy_policy adds the user
\* to the consent cache only after the update of the users sheet for that
\* user has succeeded; when that update fails the cache is as it was and the
\* failure is raised to the caller.
WriteThroughAfterStore ==
    \A u \in Users :
        /\ u \in accepted_users => acc_pc[u] = "done"
        /\ acc_pc[u] \in {"await_update", "failed"} => u \notin accepted_users

\* The update of the sheet has failed for a user whose row exists, and the
\* cache holds nobody.
WriteThroughAfterStoreWitness ==
    \E u \in Users :
        /\ acc_pc[u] = "failed"
        /\ sheet_users[u] = "no"
        /\ accepted_users = {}

\* C30: when the cache is initialized and not stale, the reads of the access
\* layer (get_user_privacy_status, get_categories, get_items_by_category,
\* get_item) answer from the cache alone and issue no query, also for keys
\* the cache has not got: an unknown user gives false, an unknown item None.
CachedReadsStayInCache ==
    [][access' # access =>
        /\ (access'.op = "get_user_privacy_status"
              /\ p_initialized /\ now - p_last_update <= 300)
             => /\ access'.source = "cache"
                /\ access'.answer.accepted = (access'.user \in accepted_users)
        /\ (access'.op # "get_user_privacy_status"
              /\ c_initialized /\ now - c_last_update <= 300)
             => /\ access'.source = "cache"
                /\ UNCHANGED <<categories, items_by_category, items_by_id, c_last_update>>
                /\ access'.op = "get_categories" => access'.answer.names = categories
                /\ access'.op = "get_items_by_category" =>
                      access'.answer.items =
                          IF access'.key \in DOMAIN items_by_category
                          THEN items_by_category[access'.key] ELSE << >>
                /\ access'.op = "get_item" =>
                      access'.answer.items =
                          IF access'.key \in DOMAIN items_by_id
                          THEN <<items_by_id[access'.key]>> ELSE << >>]_vars

\* get_item has been asked of the fresh cache for an item that the sheet
\* holds and the cache does not, and has answered None from the cache.
CachedReadsStayInCacheWitness ==
    /\ access.op = "get_item"
    /\ access.source = "cache"
    /\ access.answer.items = << >>
    /\ \E k \in 1..Len(sheet_items) :
          sheet_items[k].id = access.key /\ sheet_items[k].price # "x"
    /\ c_initialized

\* C31: a "cart:increase" callback on an item whose status is RESERVED leaves
\* the cart of the user who pressed the button as it was, whatever the amount
\* and however much of the item is on the shelf.
ReservedNotAdded ==
    [][(shelf' = shelf /\ shelf[incr'.item].status = ITEM_STATUS_RESERVED)
       => GetCart(carts', incr'.user) = GetCart(carts, incr'.user)]_vars

\* A user who holds one unit of an item asks for more of it while more is on
\* the shelf, and the item is reserved: the cart still holds the one unit.
ReservedNotAddedWitness ==
    /\ incr.outcome = "reserved"
    /\ incr.amount > 0
    /\ incr.current > 0
    /\ incr.available > incr.current
    /\ shelf[incr.item].status = ITEM_STATUS_RESERVED
    /\ GetItemQuantity(carts, incr.user, incr.item) = incr.current

CheckoutClearsCart ==
    [][(order'.n # order.n /\ order'.outcome \in {"summary", "ask_name"})
       => DOMAIN GetCart(carts', order'.user) = {}]_vars

\* C34: add_to_cart, remove_from_cart and clear_cart for user u leave the
\* cart of every other user as it was, and add_to_cart and remove_from_cart
\* for item i leave every other item entry of u as it was.
CartIsolation ==
    [][cartOp'.op \in {"add_to_cart", "remove_from_cart", "clear_cart"}
       => /\ \A v \in CartUsers \ {cartOp'.user} :
                GetCart(carts', v) = GetCart(carts, v)
          /\ cartOp'.op \in {"add_to_cart", "remove_from_cart"}
                => \A j \in ItemIds \ {cartOp'.item} :
                      /\ (j \in DOMAIN GetCart(carts', cartOp'.user))
                            = (j \in DOMAIN GetCart(carts, cartOp'.user))
                      /\ GetItemQuantity(carts', cartOp'.user, j)
                            = GetItemQuantity(carts, cartOp'.user, j)]_vars

\* Both users hold items, and a call that took an item out of one user's
\* cart has left that user's other item and the other user's cart in place.
CartIsolationWitness ==
    /\ cartOp.op = "remove_from_cart"
    /\ cartOp.item \notin DOMAIN GetCart(carts, cartOp.user)
    /\ DOMAIN GetCart(carts, cartOp.user) # {}
    /\ \E v \in CartUsers \ {cartOp.user} : DOMAIN GetCart(carts, v) = ItemIds

WalkSeesStartingCart ==
    /\ walk.pc # "failed"
    /\ walk.pc = "done" => walk.rendered = walk.start

\* C37: when two catalog reconciliation passes overlap, the items left in the
\* cache after both have finished are those of the pass that fetched its
\* items last, never those of the earlier fetch.
LatestSnapshotWins ==
    (\A p \in Passes : sweeps.jobs[p].pc = "done")
    => items_by_category = GroupByCategory(<< >>, sweeps.jobs[LatestFetcher].items)

HiddenStayHidden ==
    c_initialized =>
        /\ \A item_id \in DOMAIN items_by_id :
              items_by_id[item_id].status # ITEM_STATUS_UNAVAILABLE
        /\ \A category_name \in DOMAIN items_by_category :
              \A k \in 1..Len(items_by_category[category_name]) :
                 items_by_category[category_name][k].status # ITEM_STATUS_UNAVAILABLE

\* C40: after every catalog reconciliation the category list and the item
\* buckets describe the same categories: every category of get_categories
\* has a non-empty bucket, and every non-empty bucket belongs to a category
\* of get_categories.
CategoriesMatchBuckets ==
    c_initialized =>
        {categories[k] : k \in 1..Len(categories)}
            = {category_name \in DOMAIN items_by_category :
                  items_by_category[category_name] # << >>}

====
